---- MODULE Spec2Model ----
(***************************************************************************)
(* Model of the paper-ingestion pipeline of academic_paper_documentor:     *)
(* paper_processor.py (process_single_paper, process_folder, main),        *)
(* pdf_extractor.py (download_pdf, resolve_doi_to_pdf, extract),           *)
(* llm_analyzer.py (analyze_paper), notion_client.py (check_duplicate,     *)
(* create_paper_page) and batch_process.py (batch).                        *)
(*                                                                         *)
(* Text is a sequence of symbols (one-character strings for titles, whole  *)
(* words where the code never looks inside them).  Exceptions are records  *)
(* [cls, err]: cls is the Python class the except clauses discriminate on, *)
(* err the name the specification's error taxonomy gives the failure.      *)
(***************************************************************************)
EXTENDS Integers, Sequences, FiniteSets, TLC

(* ------------------------------------------------------------------ *)
(* Program constants and model bounds                                  *)
(* ------------------------------------------------------------------ *)

\* config.py: REQUEST_RETRY_COUNT
REQUEST_RETRY_COUNT == 3
\* config.py: REQUEST_RETRY_DELAY (2.0 seconds, kept as the integer 2)
REQUEST_RETRY_DELAY == 2
\* paper_processor.py / batch_process.py: time.sleep(2) between papers
INTER_PAPER_DELAY == 2
\* pdf_extractor.py: the least length of extracted text that is not taken
\* for a scan
MinTextChars == 100
\* config.py: MAX_TEXT_LENGTH
MAX_TEXT_LENGTH == 30000
\* llm_analyzer.py: len("\n\n[...text truncated...]\n\n"), the dots being one character each
MarkerLen == 22

\* longest query title explored by the duplicate-guard specification
MaxTitleLen == 2
\* most candidate pages in one catalog answer
MaxCand == 2
\* most PDFs in a folder handed to process_folder / batch
MaxPapers == 2
\* longest URL explored by the error-message specification, in tokens
MaxUrlLen == 2
\* longest DOI suffix explored by the resolver specification, in tokens
MaxDoiLen == 2
\* most anchors on a landing page
MaxAnchors == 2
\* longest string-typed list field explored by the normalization specification
MaxFieldLen == 3
\* how far from the budget, on either side, the lengths of the truncation
\* specification go
TruncSpan == 60
\* most pages of a document of the scanned-guard specification
MaxPages == 5
\* most scans of the watch specification
MaxScans == 2
\* longest text handed to _clean_text
MaxTextLen == 6

None == "None"

(* ------------------------------------------------------------------ *)
(* Text helpers (Python str methods used by the code)                  *)
(* ------------------------------------------------------------------ *)

TitleAlphabet == {"a", "A", " ", "\n"}

\* Python's \s and str.strip() whitespace, restricted to the alphabet
IsSpace(c) == c \in {" ", "\n", "\t"}

\* str.lower() on one symbol
LowerChar(c) == IF c = "A" THEN "a" ELSE IF c = "B" THEN "b" ELSE c

Lower(s) == [i \in 1..Len(s) |-> LowerChar(s[i])]

RECURSIVE LStrip(_)
LStrip(s) == IF s # <<>> /\ IsSpace(Head(s)) THEN LStrip(Tail(s)) ELSE s

RECURSIVE RStrip(_)
RStrip(s) ==
    IF s # <<>> /\ IsSpace(s[Len(s)]) THEN RStrip(SubSeq(s, 1, Len(s) - 1)) ELSE s

\* str.strip()
Strip(s) == RStrip(LStrip(s))

\* re.sub(r'\s+', ' ', s): every maximal whitespace run becomes one space
RECURSIVE CollapseWs(_)
CollapseWs(s) ==
    IF s = <<>> THEN <<>>
    ELSE IF IsSpace(Head(s))
         THEN <<" ">> \o CollapseWs(LStrip(s))
         ELSE <<Head(s)>> \o CollapseWs(Tail(s))

\* all sequences over S of length at most n
RECURSIVE SeqsUpTo(_, _)
SeqsUpTo(S, n) ==
    IF n = 0 THEN {<<>>}
    ELSE LET shorter == SeqsUpTo(S, n - 1)
         IN  shorter \cup {Append(t, c) : t \in shorter, c \in S}

(* ------------------------------------------------------------------ *)
(* notion_client.py: duplicate guard                                   *)
(* ------------------------------------------------------------------ *)

\* _normalize_title
NormalizeTitle(title) == Lower(Strip(CollapseWs(title)))

NoExc == [cls |-> "none", err |-> "none"]
Exc(cls, err) == [cls |-> cls, err |-> err]

\* a rich-text block of a page's Title property; a block of another type
\* than "text" (a mention, an equation) carries no "text" key
TextBlock(content) == [has_text |-> TRUE, content |-> content]
OtherBlock == [has_text |-> FALSE, content |-> <<>>]

\* title_blocks[0]["text"]["content"] if title_blocks else ""
\* (line 105); ok = FALSE stands for the KeyError of a block without "text"
PageTitle(page) ==
    IF page.blocks = <<>> THEN [ok |-> TRUE, title |-> <<>>]
    ELSE IF page.blocks[1].has_text
         THEN [ok |-> TRUE, title |-> page.blocks[1].content]
         ELSE [ok |-> FALSE, title |-> <<>>]

\* the for loop of check_duplicate over resp.json()["results"], from page i
RECURSIVE ScanResults(_, _, _)
ScanResults(results, i, normalized_title) ==
    IF i > Len(results) THEN [exc |-> NoExc, ret |-> None]
    ELSE LET pt == PageTitle(results[i])
         IN  IF ~pt.ok THEN [exc |-> Exc("KeyError", "none"), ret |-> None]
             ELSE IF NormalizeTitle(pt.title) = normalized_title
                  THEN [exc |-> NoExc, ret |-> results[i].url]
                  ELSE ScanResults(results, i + 1, normalized_title)

\* the body of the try block of check_duplicate (lines 87-110)
CheckDuplicateTry(title, resp) ==
    CASE resp.kind = "transport"  -> [exc |-> Exc("RequestException", "none"), ret |-> None]
      [] resp.kind = "http_error" -> [exc |-> Exc("HTTPError", "none"), ret |-> None]
      [] resp.kind = "bad_json"   -> [exc |-> Exc("ValueError", "none"), ret |-> None]
      [] OTHER                    -> ScanResults(resp.results, 1, NormalizeTitle(title))

\* faulty variant: the guard catches transport errors only
DupCatchesRequestsOnly(exc) == exc.cls \in {"RequestException", "HTTPError"}

\* except Exception (line 112)
DupCatches(exc) == exc.cls # "none"

\* check_duplicate(title): the value returned, or the exception raised
CheckDuplicate(title, resp) ==
    IF title = <<>> THEN [exc |-> NoExc, ret |-> None]
    ELSE LET r == CheckDuplicateTry(title, resp)
         IN  IF r.exc.cls # "none" /\ DupCatches(r.exc)
             THEN [exc |-> NoExc, ret |-> None]
             ELSE r

(* ------------------------------------------------------------------ *)
(* llm_analyzer.py: reply values and _normalise                        *)
(* ------------------------------------------------------------------ *)

\* JSON values of a reply object; v is always a sequence of texts
JNull == [t |-> "null", v |-> <<>>]
JNum(n) == [t |-> "num", v |-> <<n>>]
JStr(s) == [t |-> "str", v |-> <<s>>]
JList(items) == [t |-> "list", v |-> items]

\* Python truthiness of a value (the model's numbers are non-zero)
Truthy(val) ==
    CASE val.t = "null" -> FALSE
      [] val.t = "num"  -> TRUE
      [] val.t = "str"  -> val.v[1] # <<>>
      [] OTHER          -> val.v # <<>>

EmptyDict == [k \in {} |-> JNull]

\* dict.get(key) with the default None
Get(d, k) == IF k \in DOMAIN d THEN d[k] ELSE JNull

\* dict.setdefault(key, default)
SetDefault(d, k, val) == IF k \in DOMAIN d THEN d ELSE d @@ (k :> val)

\* d[key] = value
Put(d, k, val) == [x \in DOMAIN d \cup {k} |-> IF x = k THEN val ELSE d[x]]

\* str.split(","): the pieces between the commas, in order
RECURSIVE SplitComma(_, _)
SplitComma(s, cur) ==
    IF s = <<>> THEN <<cur>>
    ELSE IF Head(s) = "," THEN <<cur>> \o SplitComma(Tail(s), <<>>)
         ELSE SplitComma(Tail(s), Append(cur, Head(s)))

\* faulty variant: the filter on empty items is missing
RECURSIVE StripKeepEmpty(_)
StripKeepEmpty(items) ==
    IF items = <<>> THEN <<>>
    ELSE <<Strip(Head(items))>> \o StripKeepEmpty(Tail(items))

\* [item.strip() for item in items if item.strip()]
RECURSIVE StripNonEmpty(_)
StripNonEmpty(items) ==
    IF items = <<>> THEN <<>>
    ELSE LET it == Strip(Head(items))
         IN  (IF it = <<>> THEN <<>> ELSE <<it>>) \o StripNonEmpty(Tail(items))

\* lines 98-100: a string-typed list field becomes a list
CoerceList(val) ==
    IF val.t = "str" THEN JList(StripNonEmpty(SplitComma(val.v[1], <<>>))) ELSE val

\* faulty variant: the last setdefault is missing
DefaultsWithoutLanguage ==
    << <<"title", JNull>>, <<"authors", JNull>>, <<"year", JNull>>,
       <<"keywords", JList(<<>>)>>, <<"main_topics", JList(<<>>)>>,
       <<"key_findings", JStr(<<>>)>>, <<"methodology", JStr(<<>>)>>,
       <<"relevance_score", JStr(<<"Medium">>)>>,
       <<"research_area", JStr(<<"Background">>)>> >>

\* lines 86-95: the defaults of the ten expected keys, in the code's order
Defaults ==
    << <<"title", JNull>>, <<"authors", JNull>>, <<"year", JNull>>,
       <<"keywords", JList(<<>>)>>, <<"main_topics", JList(<<>>)>>,
       <<"key_findings", JStr(<<>>)>>, <<"methodology", JStr(<<>>)>>,
       <<"relevance_score", JStr(<<"Medium">>)>>,
       <<"research_area", JStr(<<"Background">>)>>,
       <<"language", JStr(<<"English">>)>> >>

RECURSIVE ApplyDefaults(_, _)
ApplyDefaults(d, i) ==
    IF i > Len(Defaults) THEN d
    ELSE ApplyDefaults(SetDefault(d, Defaults[i][1], Defaults[i][2]), i + 1)

\* _normalise(data) for a dict
Normalise(data) ==
    LET d == ApplyDefaults(data, 1)
    IN  [k \in DOMAIN d |->
            IF k \in {"keywords", "main_topics"} THEN CoerceList(d[k]) ELSE d[k]]

\* ', '.join(value) raises TypeError unless value is an iterable of strings
\* (paper_processor.py line 148)
JoinRaises(val) == val.t \in {"null", "num"}

(* ------------------------------------------------------------------ *)
(* State                                                               *)
(* ------------------------------------------------------------------ *)

VARIABLES
    mode,          \* what main / the batch tool was asked: pdf, url, doi, folder, batch
    cpc,           \* position of the caller: start, call, running, exit, aborted
    npapers,       \* len(pdfs) of a folder run
    idx,           \* the loop variable i of process_folder / batch
    counts,        \* counts["success"], counts["failed"]
    invoked,       \* number of process_single_paper calls made by the caller
    waits,         \* the inter-paper sleeps of the caller, in order
    exit_code,     \* sys.exit status of main (-1: none yet)
    pdf_url,       \* main, --doi: what resolve_doi_to_pdf returned
    doi_tmp,       \* the temp file resolve_doi_to_pdf persisted, or NoPath
    fs,            \* the paths that exist on disk
    next_tmp,      \* number of the next NamedTemporaryFile
    pc,            \* position inside process_single_paper
    input_path,    \* argument input_path
    is_url,        \* argument is_url
    pdf_path,      \* local pdf_path
    downloaded,    \* local downloaded
    dl_attempt,    \* download_pdf: attempt
    dl_log,        \* download_pdf: requests and sleeps, in order
    dl_created,    \* download_pdf: temp files its attempts created
    last_error,    \* download_pdf: last_error
    paper,         \* the ExtractedPaper (title, authors), once extracted
    dup_resp,      \* the catalog's answer to the duplicate query
    dup_url,       \* local dup_url
    an_attempt,    \* analyze_paper: attempt
    an_log,        \* analyze_paper: service calls and sleeps, in order
    an_replies,    \* analyze_paper: the kind of each reply received
    analysis,      \* local analysis
    calls,         \* the stage functions called in this run, in order
    completed,     \* the stage functions that returned without raising
    failure,       \* the error that ended the run, if any (cls none: no exception)
    result,        \* none, True, False, or raise (an exception left the function)
    create_requests, \* create requests sent to the catalog in this run
    create_answer, \* what the catalog answered to the create request
    pages,         \* the records the catalog holds
    dq_title,      \* duplicate-guard specification: the query title
    dq_resp,       \* duplicate-guard specification: the catalog's answer
    dq_out,        \* duplicate-guard specification: check_duplicate's outcome
    dq_pc,         \* duplicate-guard specification: asked / done
    em_url,        \* error-message specification: the URL given to download_pdf
    em_attempt,    \* error-message specification: attempt
    em_last,       \* error-message specification: last_error
    em_msg,        \* error-message specification: the parts of error_msg
    em_pc,         \* error-message specification: idle / loop / raised
    rd_id,         \* resolver specification: the DOI identifier the input names
    rd_doi,        \* resolver specification: argument doi
    rd_clean,      \* resolver specification: doi_clean
    rd_oa,         \* resolver specification: the answer of the open-access lookup
    rd_redirect,   \* resolver specification: the answer of the doi.org request
    rd_log,        \* resolver specification: the strategies entered, in order
    rd_out,        \* resolver specification: what resolve_doi_to_pdf returned or raised
    rd_pc,         \* resolver specification: idle, start, s1, s2, s3, done
    nm_in,         \* normalization specification: the object the service replied
    nm_out,        \* normalization specification: what analyze_paper returned
    nm_pc,         \* normalization specification: idle / replied / done
    tr_len,        \* truncation specification: len(text); text[i] is character i
    tr_out,        \* truncation specification: the pieces _truncate returned
    tr_pc,         \* truncation specification: idle / given / done
    sc_doc,        \* scanned-guard specification: the page texts of the document
    sc_out,        \* scanned-guard specification: what extract_text_from_pdf did
    sc_pc,         \* scanned-guard specification: idle / opened / done
    cl_in,         \* text-normalizer specification: the input text
    cl_out,        \* text-normalizer specification: _clean_text(cl_in)
    cl_again,      \* text-normalizer specification: _clean_text(cl_out)
    cl_pc,         \* text-normalizer specification: idle / given / once / twice
    rc_paper,      \* record specification: the extractor's title and authors
    rc_analysis,   \* record specification: the analysis
    rc_link,       \* record specification: argument pdf_url of create_paper_page
    rc_record,     \* record specification: the properties built
    rc_pc,         \* record specification: idle / analysed / filled / built
    w_recursive,   \* watch specification: argument recursive
    w_fs,          \* watch specification: the PDFs under the folder, as relative paths
    w_seen,        \* watch specification: seen
    w_new,         \* watch specification: what is left of new in the current scan
    w_log,         \* watch specification: process_single_paper calls and sleeps, in order
    w_scans,       \* watch specification: scans begun
    w_pc           \* watch specification: idle / scan / loop / stopped

callerVars == <<mode, cpc, npapers, idx, counts, invoked, waits, exit_code, pdf_url,
                doi_tmp>>
diskVars == <<fs, next_tmp>>
runVars == <<pc, input_path, is_url, pdf_path, downloaded, paper, dup_resp, dup_url,
             analysis, calls, completed, failure, result, create_requests,
             create_answer, pages>>
dlVars == <<dl_attempt, dl_log, dl_created, last_error>>
anVars == <<an_attempt, an_log, an_replies>>
dqVars == <<dq_title, dq_resp, dq_out, dq_pc>>
emVars == <<em_url, em_attempt, em_last, em_msg, em_pc>>
rdVars == <<rd_id, rd_doi, rd_clean, rd_oa, rd_redirect, rd_log, rd_out, rd_pc>>
nmVars == <<nm_in, nm_out, nm_pc>>
trVars == <<tr_len, tr_out, tr_pc>>
scVars == <<sc_doc, sc_out, sc_pc>>
clVars == <<cl_in, cl_out, cl_again, cl_pc>>
rcVars == <<rc_paper, rc_analysis, rc_link, rc_record, rc_pc>>
wVars == <<w_recursive, w_fs, w_seen, w_new, w_log, w_scans, w_pc>>
moreVars == <<trVars, scVars, clVars, rcVars, wVars>>
sideVars == <<dqVars, emVars, rdVars, nmVars, moreVars>>
vars == <<callerVars, diskVars, runVars, dlVars, anVars, sideVars>>

\* paths: <<kind, n>>; kind is local (a caller's PDF), tmp, processed, url
NoPath == <<"none", 0>>
LocalPath(i) == <<"local", i>>
TmpPath(n) == <<"tmp", n>>
ProcessedPath(i) == <<"processed", i>>
UrlPath(n) == <<"url", n>>

Stages == <<"download", "extract", "dup", "analyze", "create">>

CallEv == [e |-> "call", d |-> 0]
SleepEv(d) == [e |-> "sleep", d |-> d]

NoPaper == [title |-> <<>>, authors |-> <<>>]
NoResp == [kind |-> "unasked", results |-> <<>>]
NoOut == [exc |-> NoExc, ret |-> None]

RECURSIVE Pow2(_)
Pow2(n) == IF n = 0 THEN 1 ELSE 2 * Pow2(n - 1)

(* ------------------------------------------------------------------ *)
(* paper_processor.py: process_single_paper                            *)
(* ------------------------------------------------------------------ *)

\* faulty variant: the test of downloaded is missing
FinallyAnyPath(disk, dl, path) ==
    IF path # NoPath /\ path \in disk THEN disk \ {path} ELSE disk

\* the finally clause (lines 161-163)
Finally(disk, dl, path) ==
    IF dl /\ path # NoPath /\ path \in disk THEN disk \ {path} ELSE disk

\* faulty variant: the handler names FileNotFoundError only
PspCatchesFileNotFoundOnly(exc) == exc.cls = "FileNotFoundError"

\* except (FileNotFoundError, RuntimeError) (line 157)
PspCatches(exc) == exc.cls \in {"FileNotFoundError", "RuntimeError"}

\* control leaves process_single_paper with this verdict, through finally
PspExit(verdict, exc, disk) ==
    /\ pc' = "returned"
    /\ result' = verdict
    /\ failure' = exc
    /\ fs' = Finally(disk, downloaded, pdf_path)

\* faulty variant: cleanup written in the except handler instead of finally,
\* so that an exception the handler does not catch leaves without it
PspRaiseSkipsCleanup(exc, disk) ==
    IF PspCatches(exc) THEN PspExit("False", exc, disk)
    ELSE pc' = "returned" /\ result' = "raise" /\ failure' = exc /\ fs' = disk

\* an exception reaches the try statement of process_single_paper
PspRaise(exc, disk) ==
    IF PspCatches(exc) THEN PspExit("False", exc, disk) ELSE PspExit("raise", exc, disk)

\* what the caller passes as input_path
InputOf ==
    CASE mode = "pdf" -> LocalPath(1)
      [] mode = "url" -> UrlPath(1)
      [] mode = "doi" -> pdf_url
      [] OTHER        -> LocalPath(idx)

\* the call of process_single_paper and lines 108-121
CallPsp ==
    /\ cpc = "call"
    /\ cpc' = "running"
    /\ invoked' = invoked + 1
    /\ input_path' = InputOf
    /\ is_url' = (mode \in {"url", "doi"})
    /\ downloaded' = FALSE
    /\ paper' = NoPaper
    /\ dup_resp' = NoResp
    /\ dup_url' = None
    /\ analysis' = EmptyDict
    /\ calls' = <<>>
    /\ completed' = {}
    /\ create_requests' = 0
    /\ create_answer' = "none"
    /\ dl_attempt' = 1 /\ dl_log' = <<>> /\ dl_created' = {} /\ last_error' = "none"
    /\ an_attempt' = 1 /\ an_log' = <<>> /\ an_replies' = <<>>
    /\ IF is_url'
       THEN /\ pdf_path' = NoPath
            /\ pc' = "download"
            /\ result' = "none"
            /\ failure' = NoExc
       ELSE /\ pdf_path' = InputOf
            /\ IF InputOf \in fs
               THEN pc' = "extract" /\ result' = "none" /\ failure' = NoExc
               ELSE /\ pc' = "returned"
                    /\ result' = "False"
                    /\ failure' = Exc("none", "NotFound")
    /\ UNCHANGED <<mode, npapers, idx, counts, waits, exit_code, pdf_url, doi_tmp>>
    /\ UNCHANGED <<diskVars, pages, sideVars>>

(* ------------------------------------------------------------------ *)
(* pdf_extractor.py: download_pdf                                      *)
(* ------------------------------------------------------------------ *)

\* what one attempt can meet: a path that is no URL makes requests.get raise
\* MissingSchema (a RequestException) before any request is sent
DlOutcomes(url) ==
    IF url[1] = "url"
    THEN {"ok", "stream_error", "status_403", "status_404", "network"}
    ELSE {"bad_url"}

\* faulty variant: a retry budget of one attempt less
DlMayRetryShort(attempt) == attempt < REQUEST_RETRY_COUNT - 1

\* if attempt < REQUEST_RETRY_COUNT (line 103)
DlMayRetry(attempt) == attempt < REQUEST_RETRY_COUNT

\* one iteration of the loop of download_pdf (lines 86-104), then, when the
\* loop is over, lines 106-130 and the return to process_single_paper
DownloadAttempt ==
    /\ cpc = "running" /\ pc = "download"
    /\ \E o \in DlOutcomes(input_path) :
        LET p == TmpPath(next_tmp)
            creates == o \in {"ok", "stream_error"}
            disk == IF creates THEN fs \cup {p} ELSE fs
        IN  /\ calls' = IF dl_attempt = 1 THEN Append(calls, "download") ELSE calls
            /\ next_tmp' = IF creates THEN next_tmp + 1 ELSE next_tmp
            /\ dl_created' = IF creates THEN dl_created \cup {p} ELSE dl_created
            /\ IF o = "ok"
               THEN /\ pdf_path' = p
                    /\ downloaded' = TRUE
                    /\ pc' = "extract"
                    /\ completed' = completed \cup {"download"}
                    /\ fs' = disk
                    /\ dl_log' = Append(dl_log, CallEv)
                    /\ UNCHANGED <<dl_attempt, last_error, result, failure>>
               ELSE /\ last_error' = o
                    /\ UNCHANGED <<pdf_path, downloaded, completed>>
                    /\ IF DlMayRetry(dl_attempt)
                       THEN /\ dl_log' = dl_log \o <<CallEv, SleepEv(REQUEST_RETRY_DELAY)>>
                            /\ dl_attempt' = dl_attempt + 1
                            /\ fs' = disk
                            /\ UNCHANGED <<pc, result, failure>>
                       ELSE /\ dl_log' = Append(dl_log, CallEv)
                            /\ UNCHANGED dl_attempt
                            /\ PspRaise(Exc("RuntimeError", "DownloadFailed"), disk)
    /\ UNCHANGED <<callerVars, input_path, is_url, paper, dup_resp, dup_url, analysis,
                   create_requests, create_answer,
                   pages, anVars, sideVars>>

(* ------------------------------------------------------------------ *)
(* process_single_paper: extract, duplicate guard                      *)
(* ------------------------------------------------------------------ *)

\* the documents the extractor can meet and what extract_text_from_pdf does
\* with each (pdf_extractor.py lines 287-332); title <<>> stands for None
PipeDocs ==
    {[kind |-> k, title |-> <<>>, authors |-> <<>>] : k \in {"corrupt", "locked", "scanned"}}
    \cup {[kind |-> "text", title |-> t, authors |-> a] :
            t \in {<<>>, <<"a">>}, a \in {<<>>, <<"W">>}}

ExtractError(doc) ==
    CASE doc.kind = "corrupt" -> Exc("RuntimeError", "Unreadable")
      [] doc.kind = "locked"  -> Exc("RuntimeError", "PasswordProtected")
      [] doc.kind = "scanned" -> Exc("RuntimeError", "LikelyScanned")
      [] OTHER                -> NoExc

\* faulty variant: the duplicate guard is entered whatever the title
DupGuardAlways(p) == TRUE

\* if paper.title: (line 129)
DupGuardEntered(p) == p.title # <<>>

\* lines 123-126: the call of extract_text_from_pdf
Extract ==
    /\ cpc = "running" /\ pc = "extract"
    /\ calls' = Append(calls, "extract")
    /\ IF pdf_path \notin fs
       THEN /\ PspRaise(Exc("FileNotFoundError", "NotFound"), fs)
            /\ UNCHANGED <<paper, completed>>
       ELSE \E doc \in PipeDocs :
              IF ExtractError(doc).cls # "none"
              THEN /\ PspRaise(ExtractError(doc), fs)
                   /\ UNCHANGED <<paper, completed>>
              ELSE /\ paper' = [title |-> doc.title, authors |-> doc.authors]
                   /\ completed' = completed \cup {"extract"}
                   /\ pc' = IF DupGuardEntered(paper') THEN "dup" ELSE "analyze"
                   /\ UNCHANGED <<fs, result, failure>>
    /\ UNCHANGED <<callerVars, next_tmp, input_path, is_url, pdf_path, downloaded, dup_resp,
                   dup_url, analysis, create_requests, create_answer,
                   pages, dlVars, anVars, sideVars>>

\* a catalog page with one text block
Page(title, url) == [blocks |-> <<TextBlock(title)>>, url |-> url]

\* the answers of the catalog the pipeline is run against
PipeResponses ==
    {[kind |-> k, results |-> <<>>] : k \in {"transport", "http_error", "bad_json", "ok"}}
    \cup {[kind |-> "ok", results |-> r] :
            r \in { <<Page(<<"A", " ">>, "u1")>>,
                    <<Page(<<"a">>, None)>>,
                    <<Page(<<"a", "a">>, "u1")>>,
                    <<[blocks |-> <<OtherBlock>>, url |-> "u1"], Page(<<"a">>, "u2")>> }}

\* faulty variant: the test of the guard's answer is inverted
DupSkipsInverted(url) == url = None

\* if dup_url: (line 131)
DupSkips(url) == url # None

\* lines 129-133: the call of check_duplicate
DuplicateGuard ==
    /\ cpc = "running" /\ pc = "dup"
    /\ \E resp \in PipeResponses :
        LET r == CheckDuplicate(paper.title, resp)
        IN  /\ calls' = Append(calls, "dup")
            /\ dup_resp' = resp
            /\ IF r.exc.cls # "none"
               THEN /\ PspRaise(r.exc, fs)
                    /\ UNCHANGED <<dup_url, completed>>
               ELSE /\ completed' = completed \cup {"dup"}
                    /\ dup_url' = r.ret
                    /\ IF DupSkips(r.ret)
                       THEN PspExit("True", NoExc, fs)
                       ELSE pc' = "analyze" /\ UNCHANGED <<fs, result, failure>>
    /\ UNCHANGED <<callerVars, next_tmp, input_path, is_url, pdf_path, downloaded, paper,
                   analysis, create_requests, create_answer,
                   pages, dlVars, anVars, sideVars>>

(* ------------------------------------------------------------------ *)
(* llm_analyzer.py: analyze_paper                                      *)
(* ------------------------------------------------------------------ *)

\* the replies of the reasoning service the pipeline is run against:
\* transport  generate_content raises a service or transport error
\* empty      response.text is empty
\* invalid    the text is no JSON
\* non_object the text is JSON, but not an object (a list, a string, null)
\* object     the text is a JSON object
PipeObjects ==
    { EmptyDict,
      "keywords" :> JNull,
      "keywords" :> JStr(<<"k", ",", " ", "m">>),
      ("title" :> JStr(<<"T">>)) @@ ("keywords" :> JList(<< <<"k">> >>)) }

PipeReplies ==
    {[kind |-> k, obj |-> EmptyDict] : k \in {"transport", "empty", "invalid", "non_object"}}
    \cup {[kind |-> "object", obj |-> o] : o \in PipeObjects}

\* the try body of one attempt (lines 124-132): generate_content, the
\* emptiness test, _parse_response and _normalise
AnalyzeTry(reply) ==
    CASE reply.kind = "transport"  -> [exc |-> Exc("Exception", "none"), ret |-> EmptyDict]
      [] reply.kind = "empty"      -> [exc |-> Exc("RuntimeError", "InvalidResponse"),
                                       ret |-> EmptyDict]
      [] reply.kind = "invalid"    -> [exc |-> Exc("RuntimeError", "InvalidResponse"),
                                       ret |-> EmptyDict]
      [] reply.kind = "non_object" -> [exc |-> Exc("AttributeError", "none"), ret |-> EmptyDict]
      [] OTHER                     -> [exc |-> NoExc, ret |-> Normalise(reply.obj)]

\* except RuntimeError: raise (lines 134-135)
AnalyzeFailsFast(exc) == exc.cls = "RuntimeError"

\* faulty variant: a fixed delay instead of the doubling one
BackoffDelayFixed(attempt) == REQUEST_RETRY_DELAY

\* delay = REQUEST_RETRY_DELAY * (2 ** (attempt - 1)) (line 140)
BackoffDelay(attempt) == REQUEST_RETRY_DELAY * Pow2(attempt - 1)

\* faulty variant: a retry budget of one attempt more
AnMayRetryOneMore(attempt) == attempt < REQUEST_RETRY_COUNT + 1

\* if attempt < REQUEST_RETRY_COUNT (line 139)
AnMayRetry(attempt) == attempt < REQUEST_RETRY_COUNT

\* one iteration of the loop of analyze_paper (lines 122-142), then, when
\* the loop is over, lines 144-146 and the return to process_single_paper
AnalyzeAttempt ==
    /\ cpc = "running" /\ pc = "analyze"
    /\ \E reply \in PipeReplies :
        LET r == AnalyzeTry(reply)
        IN  /\ calls' = IF an_attempt = 1 THEN Append(calls, "analyze") ELSE calls
            /\ an_replies' = Append(an_replies, reply.kind)
            /\ IF r.exc.cls = "none"
               THEN /\ analysis' = r.ret
                    /\ completed' = completed \cup {"analyze"}
                    /\ pc' = "post"
                    /\ an_log' = Append(an_log, CallEv)
                    /\ UNCHANGED <<an_attempt, fs, result, failure>>
               ELSE /\ UNCHANGED <<analysis, completed>>
                    /\ IF AnalyzeFailsFast(r.exc)
                       THEN /\ an_log' = Append(an_log, CallEv)
                            /\ UNCHANGED an_attempt
                            /\ PspRaise(r.exc, fs)
                       ELSE IF AnMayRetry(an_attempt)
                            THEN /\ an_log' = an_log \o
                                        <<CallEv, SleepEv(BackoffDelay(an_attempt))>>
                                 /\ an_attempt' = an_attempt + 1
                                 /\ UNCHANGED <<pc, fs, result, failure>>
                            ELSE /\ an_log' = Append(an_log, CallEv)
                                 /\ UNCHANGED an_attempt
                                 /\ PspRaise(Exc("RuntimeError", "ServiceUnavailable"), fs)
    /\ UNCHANGED <<callerVars, next_tmp, input_path, is_url, pdf_path, downloaded, paper,
                   dup_resp, dup_url, create_requests, create_answer,
                   pages, dlVars, sideVars>>

(* ------------------------------------------------------------------ *)
(* process_single_paper: fallbacks, report, catalog write              *)
(* ------------------------------------------------------------------ *)

\* faulty variant: the analysis is written as it came
FallbackNone(a, p) == a

\* lines 140-143: PDF-level metadata fills what the analysis left empty
Fallback(a, p) ==
    LET a1 == IF ~Truthy(Get(a, "title")) /\ p.title # <<>>
              THEN Put(a, "title", JStr(p.title)) ELSE a
    IN  IF ~Truthy(Get(a1, "authors")) /\ p.authors # <<>>
        THEN Put(a1, "authors", JStr(p.authors)) ELSE a1

\* lines 139-148: the fallbacks and the printed report
PostAnalysis ==
    /\ cpc = "running" /\ pc = "post"
    /\ analysis' = Fallback(analysis, paper)
    /\ IF JoinRaises(IF "keywords" \in DOMAIN analysis' THEN analysis'["keywords"]
                     ELSE JList(<<>>))
       THEN PspRaise(Exc("TypeError", "none"), fs)
       ELSE pc' = "create" /\ UNCHANGED <<fs, result, failure>>
    /\ UNCHANGED <<callerVars, next_tmp, input_path, is_url, pdf_path, downloaded, paper,
                   dup_resp, dup_url, calls, completed, create_requests, create_answer,
                   pages, dlVars,
                   anVars, sideVars>>

\* notion_client.py lines 141-164: the part of the record the claims read
\* (has_pdf_link: the properties hold the key "PDF Link", lines 158-159)
CatalogRecord(paper_data, link) ==
    [title |-> IF Truthy(Get(paper_data, "title")) THEN Get(paper_data, "title")
               ELSE JStr(<<"Untitled Paper">>),
     authors |-> IF Truthy(Get(paper_data, "authors")) THEN Get(paper_data, "authors")
                 ELSE JStr(<<>>),
     has_pdf_link |-> link # NoPath,
     pdf_link |-> link]

\* what the create request can meet (notion_client.py lines 167-186):
\* ok         status 200
\* rejected   another status, with a JSON body
\* bad_body   another status, with a body that is no JSON: resp.json() raises
\*            requests' JSONDecodeError (a RequestException) or, with an
\*            older requests, a plain ValueError
\* transport  requests.post raises a RequestException
CreateErrors(o) ==
    CASE o = "rejected"  -> {Exc("RuntimeError", "CatalogRejected")}
      [] o = "transport" -> {Exc("RuntimeError", "CatalogUnreachable")}
      [] o = "bad_body"  -> {Exc("RuntimeError", "CatalogUnreachable"),
                             Exc("ValueError", "none")}
      [] OTHER           -> {}

\* faulty variant: the path of the file that was read, whatever the input
PdfLinkOfFile(url_input, input, path) == path

\* pdf_link = input_path if is_url else pdf_path (line 152)
PdfLink(url_input, input, path) == IF url_input THEN input ELSE path

\* lines 150-155: the call of create_paper_page
CreatePage ==
    /\ cpc = "running" /\ pc = "create"
    /\ calls' = Append(calls, "create")
    /\ create_requests' = create_requests + 1
    /\ \E o \in {"ok", "rejected", "bad_body", "transport"} :
        /\ create_answer' = o
        /\ IF o = "ok"
           THEN /\ pages' = Append(pages, CatalogRecord(analysis,
                                       PdfLink(is_url, input_path, pdf_path)))
                /\ completed' = completed \cup {"create"}
                /\ PspExit("True", NoExc, fs)
           ELSE /\ \E e \in CreateErrors(o) : PspRaise(e, fs)
                /\ UNCHANGED <<pages, completed>>
    /\ UNCHANGED <<callerVars, next_tmp, input_path, is_url, pdf_path, downloaded, paper,
                   dup_resp, dup_url, analysis, dlVars, anVars, sideVars>>

(* ------------------------------------------------------------------ *)
(* The callers: main, process_folder, batch                            *)
(* ------------------------------------------------------------------ *)

\* main, --pdf and --url (paper_processor.py lines 269-272)
MainSingle ==
    /\ cpc = "start" /\ mode \in {"pdf", "url"}
    /\ cpc' = "call"
    /\ UNCHANGED <<mode, npapers, idx, counts, invoked, waits, exit_code, pdf_url, doi_tmp>>
    /\ UNCHANGED <<diskVars, runVars, dlVars, anVars, sideVars>>

\* main, --doi: resolve_doi_to_pdf (paper_processor.py lines 273-281); the
\* resolver returns a URL, or the path of the temp file its third strategy
\* wrote (pdf_extractor.py lines 196-202), or raises
MainDoi ==
    /\ cpc = "start" /\ mode = "doi"
    /\ \E o \in {"url", "pdf_tmp", "unresolved"} :
        CASE o = "url" ->
                /\ pdf_url' = UrlPath(1)
                /\ cpc' = "call"
                /\ UNCHANGED <<doi_tmp, fs, next_tmp, exit_code>>
          [] o = "pdf_tmp" ->
                /\ pdf_url' = TmpPath(next_tmp)
                /\ doi_tmp' = TmpPath(next_tmp)
                /\ fs' = fs \cup {TmpPath(next_tmp)}
                /\ next_tmp' = next_tmp + 1
                /\ cpc' = "call"
                /\ UNCHANGED exit_code
          [] OTHER ->
                /\ cpc' = "exit"
                /\ exit_code' = 1
                /\ UNCHANGED <<pdf_url, doi_tmp, fs, next_tmp>>
    /\ UNCHANGED <<mode, npapers, idx, counts, invoked, waits>>
    /\ UNCHANGED <<runVars, dlVars, anVars, sideVars>>

\* process_single_paper has handed control back to main
\* (paper_processor.py lines 270, 272, 278-281)
MainReturn ==
    /\ cpc = "running" /\ pc = "returned" /\ mode \in {"pdf", "url", "doi"}
    /\ IF result = "raise" /\ ~(mode = "doi" /\ failure.cls = "RuntimeError")
       THEN cpc' = "aborted" /\ UNCHANGED exit_code
       ELSE cpc' = "exit" /\ exit_code' = IF result = "True" THEN 0 ELSE 1
    /\ UNCHANGED <<mode, npapers, idx, counts, invoked, waits, pdf_url, doi_tmp>>
    /\ UNCHANGED <<diskVars, runVars, dlVars, anVars, sideVars>>

\* process_folder lines 183-197, batch lines 36-51: the folder is listed
FolderStart ==
    /\ cpc = "start" /\ mode \in {"folder", "batch"}
    /\ IF npapers = 0
       THEN cpc' = "exit" /\ exit_code' = 0 /\ UNCHANGED idx
       ELSE cpc' = "call" /\ idx' = 1 /\ UNCHANGED exit_code
    /\ UNCHANGED <<mode, npapers, counts, invoked, waits, pdf_url, doi_tmp>>
    /\ UNCHANGED <<diskVars, runVars, dlVars, anVars, sideVars>>

\* if i < len(pdfs): the for loop has another paper after paper i
LoopGoesOn(i, n) == i < n

\* the rest of one iteration of the loop, after process_single_paper
\* (process_folder lines 201-206, batch lines 57-71), and the end of the loop
FolderReturn ==
    /\ cpc = "running" /\ pc = "returned" /\ mode \in {"folder", "batch"}
    /\ IF result = "raise"
       THEN /\ cpc' = "aborted"
            /\ UNCHANGED <<counts, fs, waits, idx, exit_code>>
       ELSE /\ counts' = IF result = "True"
                         THEN [counts EXCEPT !.success = @ + 1]
                         ELSE [counts EXCEPT !.failed = @ + 1]
            /\ fs' = IF mode = "batch" /\ result = "True"
                     THEN (fs \ {LocalPath(idx)}) \cup {ProcessedPath(idx)}
                     ELSE fs
            /\ IF LoopGoesOn(idx, npapers)
               THEN /\ waits' = Append(waits, INTER_PAPER_DELAY)
                    /\ idx' = idx + 1
                    /\ cpc' = "call"
                    /\ UNCHANGED exit_code
               ELSE /\ cpc' = "exit"
                    /\ exit_code' = IF mode = "folder" /\ counts'.failed # 0 THEN 1 ELSE 0
                    /\ UNCHANGED <<waits, idx>>
    /\ UNCHANGED <<mode, npapers, invoked, pdf_url, doi_tmp, next_tmp>>
    /\ UNCHANGED <<runVars, dlVars, anVars, sideVars>>

(* ------------------------------------------------------------------ *)
(* Specification of the pipeline                                       *)
(* ------------------------------------------------------------------ *)

Modes == {"pdf", "url", "doi", "folder", "batch"}

IdleRun ==
    /\ pc = "idle" /\ input_path = NoPath /\ is_url = FALSE /\ pdf_path = NoPath
    /\ downloaded = FALSE /\ paper = NoPaper /\ dup_resp = NoResp /\ dup_url = None
    /\ analysis = EmptyDict /\ calls = <<>> /\ completed = {} /\ failure = NoExc
    /\ result = "none" /\ create_requests = 0 /\ create_answer = "none" /\ pages = <<>>
    /\ dl_attempt = 1 /\ dl_log = <<>> /\ dl_created = {} /\ last_error = "none"
    /\ an_attempt = 1 /\ an_log = <<>> /\ an_replies = <<>>

IdleDq ==
    dq_title = <<>> /\ dq_resp = NoResp /\ dq_out = NoOut /\ dq_pc = "idle"

IdleEm ==
    em_url = <<>> /\ em_attempt = 1 /\ em_last = "none" /\ em_msg = {} /\ em_pc = "idle"

IdleNm == nm_in = EmptyDict /\ nm_out = EmptyDict /\ nm_pc = "idle"

IdleTr == tr_len = 0 /\ tr_out = <<>> /\ tr_pc = "idle"

IdleSc == sc_doc = <<>> /\ sc_out = "none" /\ sc_pc = "idle"

IdleCl == cl_in = <<>> /\ cl_out = <<>> /\ cl_again = <<>> /\ cl_pc = "idle"

IdleRc ==
    /\ rc_paper = NoPaper /\ rc_analysis = EmptyDict /\ rc_link = NoPath
    /\ rc_record = EmptyDict /\ rc_pc = "idle"

IdleW ==
    /\ w_recursive = FALSE /\ w_fs = {} /\ w_seen = {} /\ w_new = <<>>
    /\ w_log = <<>> /\ w_scans = 0 /\ w_pc = "idle"

IdleMore == IdleTr /\ IdleSc /\ IdleCl /\ IdleRc /\ IdleW

NoAnswer == [kind |-> "unasked", anchors |-> <<>>]
NoResult == [exc |-> NoExc, ret |-> <<>>]

IdleRd ==
    /\ rd_id = <<>> /\ rd_doi = <<>> /\ rd_clean = <<>>
    /\ rd_oa = "unasked" /\ rd_redirect = NoAnswer
    /\ rd_log = <<>> /\ rd_out = NoResult /\ rd_pc = "idle"

Init ==
    /\ mode \in Modes
    /\ cpc = "start"
    /\ npapers \in (IF mode \in {"folder", "batch"} THEN 0..MaxPapers ELSE {1})
    /\ idx = 0
    /\ counts = [success |-> 0, failed |-> 0]
    /\ invoked = 0
    /\ waits = <<>>
    /\ exit_code = -1
    /\ pdf_url = NoPath
    /\ doi_tmp = NoPath
    /\ fs \in (CASE mode = "pdf" -> {{}, {LocalPath(1)}}
                 [] mode \in {"folder", "batch"} -> {{LocalPath(i) : i \in 1..npapers}}
                 [] OTHER -> {{}})
    /\ next_tmp = 1
    /\ IdleRun
    /\ IdleDq
    /\ IdleEm
    /\ IdleRd
    /\ IdleNm
    /\ IdleMore

Next ==
    \/ MainSingle
    \/ MainDoi
    \/ MainReturn
    \/ FolderStart
    \/ FolderReturn
    \/ CallPsp
    \/ DownloadAttempt
    \/ Extract
    \/ DuplicateGuard
    \/ AnalyzeAttempt
    \/ PostAnalysis
    \/ CreatePage

Spec == Init /\ [][Next]_vars

\* the program is one sequential process that keeps running: a step that
\* stays possible is taken
SpecLive == Spec /\ WF_vars(Next)

(* ------------------------------------------------------------------ *)
(* Specification of the duplicate guard alone                          *)
(* ------------------------------------------------------------------ *)

SwapChar(c) == IF c = "a" THEN "A" ELSE IF c = "A" THEN "a" ELSE c

\* the same title in the other case
SwapCase(s) == [i \in 1..Len(s) |-> SwapChar(s[i])]

\* the same title with every blank widened to a run and blanks around it
RECURSIVE WidenInner(_)
WidenInner(s) ==
    IF s = <<>> THEN <<>>
    ELSE (IF IsSpace(Head(s)) THEN <<"\n", " ">> ELSE <<Head(s)>>) \o WidenInner(Tail(s))

Widen(s) == <<" ">> \o WidenInner(s) \o <<"\n">>

DqTitles == SeqsUpTo(TitleAlphabet, MaxTitleLen)

\* the Title properties a candidate page of the catalog can carry for a
\* query q: the title itself, respelt, extended, empty, held in two
\* rich-text blocks, or beginning with a block that is no text
DqBlocks(q) ==
    {<<TextBlock(t)>> : t \in {q, SwapCase(q), Widen(q), q \o <<"a">>,
                               q \o <<" ", "a">>, <<>>}}
    \cup {<<TextBlock(q), TextBlock(<<" ", "a">>)>>}
    \cup {<<TextBlock(SubSeq(q, 1, k)), TextBlock(SubSeq(q, k + 1, Len(q)))>> :
            k \in 1..(Len(q) - 1)}
    \cup {<<OtherBlock>>, <<>>}

DqPages(q) == {[blocks |-> b, url |-> u] : b \in DqBlocks(q), u \in {"u1", "u2", None}}

DqResponses(q) ==
    {[kind |-> k, results |-> <<>>] : k \in {"transport", "http_error", "bad_json"}}
    \cup {[kind |-> "ok", results |-> r] : r \in SeqsUpTo(DqPages(q), MaxCand)}

InitDup ==
    /\ mode = "none" /\ cpc = "idle" /\ npapers = 0 /\ idx = 0
    /\ counts = [success |-> 0, failed |-> 0]
    /\ invoked = 0 /\ waits = <<>> /\ exit_code = -1
    /\ pdf_url = NoPath /\ doi_tmp = NoPath /\ fs = {} /\ next_tmp = 1
    /\ IdleRun
    /\ dq_title \in DqTitles
    /\ dq_resp \in DqResponses(dq_title)
    /\ dq_out = NoOut
    /\ dq_pc = "asked"
    /\ IdleEm
    /\ IdleRd
    /\ IdleNm
    /\ IdleMore

\* one call check_duplicate(dq_title) answered with dq_resp
DqCheckDuplicate ==
    /\ dq_pc = "asked"
    /\ dq_out' = CheckDuplicate(dq_title, dq_resp)
    /\ dq_pc' = "done"
    /\ UNCHANGED <<dq_title, dq_resp, callerVars, diskVars, runVars, dlVars, anVars, emVars, rdVars,
                 nmVars, moreVars>>

NextDup == DqCheckDuplicate

SpecDup == InitDup /\ [][NextDup]_vars

(* ------------------------------------------------------------------ *)
(* Specification of the message of DownloadFailed                      *)
(* ------------------------------------------------------------------ *)

\* a text is a sequence of tokens here; "x" stands for any text that holds
\* none of the tokens the classification looks for
UrlAlphabet == {"x", "403", "404", "sciencedirect.com"}

EmUrls == SeqsUpTo(UrlAlphabet, MaxUrlLen) \ {<<>>}

\* the failures one fetch can end in (lines 89-95)
EmErrors == {"status_403", "status_404", "status_500", "network", "stream_error"}

\* str(last_error): raise_for_status words its HTTPError as
\* "<status> <Client|Server> Error: <reason> for url: <url>", a connection
\* error names the host and path it gave up on, a broken body stream does not
StrOfError(kind, url) ==
    CASE kind = "status_403" -> <<"403", "Client Error:", "Forbidden", "for url:">> \o url
      [] kind = "status_404" -> <<"404", "Client Error:", "Not Found", "for url:">> \o url
      [] kind = "status_500" -> <<"500", "Server Error:", "for url:">> \o url
      [] kind = "network"    -> <<"Max retries exceeded with url:">> \o url
      [] OTHER               -> <<"Connection broken">>

\* token in text
Contains(text, token) == \E i \in 1..Len(text) : text[i] = token

\* lines 107-128: the parts error_msg is built of
\*   failed_after_attempts   line 107
\*   blocked_sciencedirect   lines 112-116 (use the DOI, or download manually)
\*   blocked                 lines 118-123 (paywall or bot protection; --doi, --pdf)
\*   check_url               lines 125-128
ErrorMsg(url, kind) ==
    LET text == StrOfError(kind, url)
    IN  {"failed_after_attempts"} \cup
        (IF Contains(text, "403") \/ Contains(text, "Forbidden")
         THEN (IF Contains(url, "sciencedirect.com")
               THEN {"blocked_sciencedirect"} ELSE {"blocked"})
         ELSE IF Contains(text, "404") THEN {"check_url"}
              ELSE {})

IdlePipeline ==
    /\ mode = "none" /\ cpc = "idle" /\ npapers = 0 /\ idx = 0
    /\ counts = [success |-> 0, failed |-> 0]
    /\ invoked = 0 /\ waits = <<>> /\ exit_code = -1
    /\ pdf_url = NoPath /\ doi_tmp = NoPath /\ fs = {} /\ next_tmp = 1
    /\ IdleRun

InitMsg ==
    /\ IdlePipeline
    /\ IdleDq
    /\ em_url \in EmUrls
    /\ em_attempt = 1
    /\ em_last = "none"
    /\ em_msg = {}
    /\ em_pc = "loop"
    /\ IdleRd
    /\ IdleNm
    /\ IdleMore

\* one failed iteration of the loop of download_pdf (lines 86-104)
EmAttemptFails ==
    /\ em_pc = "loop"
    /\ \E kind \in EmErrors : em_last' = kind
    /\ IF em_attempt < REQUEST_RETRY_COUNT
       THEN em_attempt' = em_attempt + 1 /\ UNCHANGED <<em_pc, em_msg>>
       ELSE /\ em_pc' = "raised"
            /\ em_msg' = ErrorMsg(em_url, em_last')
            /\ UNCHANGED em_attempt
    /\ UNCHANGED <<em_url, callerVars, diskVars, runVars, dlVars, anVars, dqVars, rdVars,
                   nmVars, moreVars>>

NextMsg == EmAttemptFails

SpecMsg == InitMsg /\ [][NextMsg]_vars

(* ------------------------------------------------------------------ *)
(* pdf_extractor.py: resolve_doi_to_pdf                                *)
(* ------------------------------------------------------------------ *)

\* a DOI is a sequence of tokens: a registrant prefix, then suffix tokens
DoiHeads == {"10.48550/arXiv.", "10.1101/", "10.1234/"}

DoiSuffixTokens == {"2301.12345", "2020.01.01.123", "x", "doi:"}

DoiIds == {<<h>> \o t : h \in DoiHeads, t \in SeqsUpTo(DoiSuffixTokens, MaxDoiLen)}

\* the spellings of an identifier the resolver accepts (docstring, lines 136-139)
DoiForms == {"bare", "doi:", "https://doi.org/", "http://doi.org/", "padded"}

Spelt(d, form) ==
    CASE form = "bare"   -> d
      [] form = "padded" -> <<" ", "doi:">> \o d \o <<"\n">>
      [] OTHER           -> <<form>> \o d

\* str.replace(old, ""): every occurrence of the token goes
RECURSIVE RemoveAll(_, _)
RemoveAll(s, token) ==
    IF s = <<>> THEN <<>>
    ELSE (IF Head(s) = token THEN <<>> ELSE <<Head(s)>>) \o RemoveAll(Tail(s), token)

StartsWith(s, token) == s # <<>> /\ Head(s) = token

\* lines 147-153
DoiClean(doi) ==
    LET c == Strip(doi)
    IN  IF StartsWith(c, "https://doi.org/") THEN RemoveAll(c, "https://doi.org/")
        ELSE IF StartsWith(c, "http://doi.org/") THEN RemoveAll(c, "http://doi.org/")
        ELSE IF StartsWith(c, "doi:") THEN RemoveAll(c, "doi:")
        ELSE c

\* the answers of the open-access lookup (lines 159-168):
\* transport   requests.get raises
\* status_404  a status other than 200
\* bad_json    status 200, resp.json() raises
\* not_object  status 200, the body is JSON but no object: data.get raises
\* no_oa       status 200, best_oa_location is null or has no url_for_pdf
\* oa_pdf      status 200, best_oa_location.url_for_pdf is set
OaAnswers == {"transport", "status_404", "bad_json", "not_object", "no_oa", "oa_pdf"}

\* no URL: what a strategy that found nothing leaves
NoUrl == <<>>

OaUrl == <<"https://oa.example/p.pdf">>

\* the try body of strategy 1 (lines 159-168)
OpenAccessTry(oa) ==
    CASE oa = "transport"  -> [exc |-> Exc("RequestException", "none"), ret |-> NoUrl]
      [] oa = "bad_json"   -> [exc |-> Exc("RequestException", "none"), ret |-> NoUrl]
      [] oa = "not_object" -> [exc |-> Exc("AttributeError", "none"), ret |-> NoUrl]
      [] oa = "oa_pdf"     -> [exc |-> NoExc, ret |-> OaUrl]
      [] OTHER             -> [exc |-> NoExc, ret |-> NoUrl]

\* faulty variant: the handler names the transport errors only
RdCatchesRequestsOnly(exc) == exc.cls = "RequestException"

\* except Exception (lines 169 and 219)
RdCatches(exc) == exc.cls # "none"

\* re.match(r"10\.48550/arXiv\.(\d+\.\d+)", doi_clean): group 1, or None
ArxivGroup(clean) ==
    IF Len(clean) >= 2 /\ clean[1] = "10.48550/arXiv."
    THEN CASE clean[2] = "2301.12345"     -> "2301.12345"
           [] clean[2] = "2020.01.01.123" -> "2020.01"
           [] OTHER                       -> None
    ELSE None

\* re.match(r"10\.1101/(\d{4}\.\d{2}\.\d{2}\.\d+)", doi_clean)
BiorxivMatches(clean) ==
    Len(clean) >= 2 /\ clean[1] = "10.1101/" /\ clean[2] = "2020.01.01.123"

\* strategy 2 (lines 174-186): the URL built from the first pattern that matches
PatternUrl(clean) ==
    IF ArxivGroup(clean) # None
    THEN <<"https://arxiv.org/pdf/", ArxivGroup(clean), ".pdf">>
    ELSE IF BiorxivMatches(clean)
         THEN <<"https://www.biorxiv.org/content/">> \o clean \o <<"v1.full.pdf">>
         ELSE NoUrl

\* the href targets a landing page can hold: abs says the target starts with
\* http, dotpdf that it holds ".pdf", dlpdf that it holds "download" and,
\* further on, "pdf"
Anchors ==
    { [href |-> "https://h/a.pdf",           abs |-> TRUE,  dotpdf |-> TRUE,  dlpdf |-> FALSE],
      [href |-> "https://h/b.pdf",           abs |-> TRUE,  dotpdf |-> TRUE,  dlpdf |-> FALSE],
      [href |-> "/files/a.pdf",              abs |-> FALSE, dotpdf |-> TRUE,  dlpdf |-> FALSE],
      [href |-> "https://h/download?as=pdf", abs |-> TRUE,  dotpdf |-> FALSE, dlpdf |-> TRUE],
      [href |-> "/download?as=pdf",          abs |-> FALSE, dotpdf |-> FALSE, dlpdf |-> TRUE],
      [href |-> "https://h/about",           abs |-> TRUE,  dotpdf |-> FALSE, dlpdf |-> FALSE] }

\* the answers of the request to doi.org (lines 191-196):
\* transport   requests.get raises
\* status_404  a status other than 200
\* pdf         status 200, Content-Type names pdf
\* page        status 200, a page with these anchors
RedirectAnswers ==
    {[kind |-> k, anchors |-> <<>>] : k \in {"transport", "status_404", "pdf"}}
    \cup {[kind |-> "page", anchors |-> a] : a \in SeqsUpTo(Anchors, MaxAnchors)}

\* pdf_patterns (lines 207-210)
PdfPatterns == <<"dotpdf", "dlpdf">>

AnchorMatches(a, pattern) == IF pattern = "dotpdf" THEN a.dotpdf ELSE a.dlpdf

\* re.findall(pattern, resp.text): the matching targets, in page order
RECURSIVE FindAll(_, _)
FindAll(pattern, anchors) ==
    IF anchors = <<>> THEN <<>>
    ELSE (IF AnchorMatches(Head(anchors), pattern) THEN <<Head(anchors)>> ELSE <<>>)
         \o FindAll(pattern, Tail(anchors))

\* lines 211-218: the loop over the patterns
RECURSIVE ScanPage(_, _)
ScanPage(anchors, i) ==
    IF i > Len(PdfPatterns) THEN NoUrl
    ELSE LET matches == FindAll(PdfPatterns[i], anchors)
         IN  IF matches # <<>> /\ matches[1].abs
             THEN <<matches[1].href>>
             ELSE ScanPage(anchors, i + 1)

\* the try body of strategy 3 (lines 191-218); tmp is the temp file a PDF
\* answer is written to
RedirectTry(answer, tmp) ==
    CASE answer.kind = "transport"  -> [exc |-> Exc("RequestException", "none"), ret |-> NoUrl]
      [] answer.kind = "status_404" -> [exc |-> NoExc, ret |-> NoUrl]
      [] answer.kind = "pdf"        -> [exc |-> NoExc, ret |-> tmp]
      [] OTHER                      -> [exc |-> NoExc, ret |-> ScanPage(answer.anchors, 1)]

\* lines 147-155
RdNormalize ==
    /\ rd_pc = "start"
    /\ rd_clean' = DoiClean(rd_doi)
    /\ rd_pc' = "s1"
    /\ UNCHANGED <<rd_id, rd_doi, rd_oa, rd_redirect, rd_log, rd_out>>
    /\ UNCHANGED <<callerVars, diskVars, runVars, dlVars, anVars, dqVars, emVars, nmVars, moreVars>>

\* strategy 1 (lines 158-170)
RdOpenAccess ==
    /\ rd_pc = "s1"
    /\ rd_log' = Append(rd_log, "open_access")
    /\ \E oa \in OaAnswers :
        LET r == OpenAccessTry(oa)
        IN  /\ rd_oa' = oa
            /\ IF r.exc.cls # "none"
               THEN IF RdCatches(r.exc)
                    THEN rd_pc' = "s2" /\ UNCHANGED rd_out
                    ELSE rd_pc' = "done" /\ rd_out' = r
               ELSE IF r.ret # NoUrl
                    THEN rd_pc' = "done" /\ rd_out' = r
                    ELSE rd_pc' = "s2" /\ UNCHANGED rd_out
    /\ UNCHANGED <<rd_id, rd_doi, rd_clean, rd_redirect>>
    /\ UNCHANGED <<callerVars, diskVars, runVars, dlVars, anVars, dqVars, emVars, nmVars, moreVars>>

\* strategy 2 (lines 172-186)
RdPattern ==
    /\ rd_pc = "s2"
    /\ rd_log' = Append(rd_log, "pattern")
    /\ IF PatternUrl(rd_clean) # NoUrl
       THEN rd_pc' = "done" /\ rd_out' = [exc |-> NoExc, ret |-> PatternUrl(rd_clean)]
       ELSE rd_pc' = "s3" /\ UNCHANGED rd_out
    /\ UNCHANGED <<rd_id, rd_doi, rd_clean, rd_oa, rd_redirect>>
    /\ UNCHANGED <<callerVars, diskVars, runVars, dlVars, anVars, dqVars, emVars, nmVars, moreVars>>

\* strategy 3 and the final raise (lines 188-227)
RdRedirect ==
    /\ rd_pc = "s3"
    /\ rd_log' = Append(rd_log, "redirect")
    /\ rd_pc' = "done"
    /\ \E answer \in RedirectAnswers :
        LET r == RedirectTry(answer, TmpPath(next_tmp))
        IN  /\ rd_redirect' = answer
            /\ IF answer.kind = "pdf"
               THEN fs' = fs \cup {TmpPath(next_tmp)} /\ next_tmp' = next_tmp + 1
               ELSE UNCHANGED <<fs, next_tmp>>
            /\ rd_out' = IF r.exc.cls # "none"
                         THEN IF RdCatches(r.exc)
                              THEN [exc |-> Exc("RuntimeError", "DoiUnresolved"), ret |-> NoUrl]
                              ELSE r
                         ELSE IF r.ret # NoUrl
                              THEN r
                              ELSE [exc |-> Exc("RuntimeError", "DoiUnresolved"), ret |-> NoUrl]
    /\ UNCHANGED <<rd_id, rd_doi, rd_clean, rd_oa>>
    /\ UNCHANGED <<callerVars, runVars, dlVars, anVars, dqVars, emVars, nmVars, moreVars>>

InitDoi ==
    /\ IdlePipeline
    /\ IdleDq
    /\ IdleEm
    /\ rd_id \in DoiIds
    /\ \E form \in DoiForms : rd_doi = Spelt(rd_id, form)
    /\ rd_clean = <<>>
    /\ rd_oa = "unasked"
    /\ rd_redirect = NoAnswer
    /\ rd_log = <<>>
    /\ rd_out = NoResult
    /\ rd_pc = "start"
    /\ IdleNm
    /\ IdleMore

NextDoi ==
    \/ RdNormalize
    \/ RdOpenAccess
    \/ RdPattern
    \/ RdRedirect

SpecDoi == InitDoi /\ [][NextDoi]_vars

(* ------------------------------------------------------------------ *)
(* Specification of the normalization of a reply                       *)
(* ------------------------------------------------------------------ *)

ExpectedKeys ==
    {"title", "authors", "year", "keywords", "main_topics", "key_findings",
     "methodology", "relevance_score", "research_area", "language"}

\* a value of the right type for each key
Sample(k) ==
    CASE k = "year"                         -> JNum(<<"2", "0", "2", "4">>)
      [] k \in {"keywords", "main_topics"}  -> JList(<< <<"a">>, <<"b">> >>)
      [] k = "relevance_score"              -> JStr(<<"High">>)
      [] k = "research_area"                -> JStr(<<"Methodology">>)
      [] OTHER                              -> JStr(<<"T">>)

\* the key is absent from the reply
Absent == [t |-> "absent", v |-> <<>>]

Entry(k, val) == IF val = Absent THEN EmptyDict ELSE k :> val

\* the strings a list field can be given as
NmStrings ==
    SeqsUpTo({"a", "b", ",", " "}, MaxFieldLen)
    \cup { <<"a", ",", " ", "b", ",", " ", "c">> }

KeywordValues ==
    {Absent, JNull, JNum(<<"7">>)}
    \cup {JStr(str) : str \in NmStrings}
    \cup {JList(l) : l \in { <<>>, << <<"a">> >>, << <<"b">>, <<"a">> >>,
                             << <<" ", "a">>, <<>> >> }}

TopicValues == {Absent, JNull, JStr(<<"b", ",", "a">>), JList(<< <<"a">> >>)}

ScoreValues == {Absent, JNull, JStr(<<"High">>), JStr(<<"Very High">>)}

AreaValues == {Absent, JNull, JStr(<<"Methodology">>), JStr(<<"Survey">>)}

\* the reply objects explored: every subset of the expected keys, with a
\* value of the right type, and every combination of the values above
NmObjects ==
    {[k \in K |-> Sample(k)] : K \in SUBSET ExpectedKeys}
    \cup {Entry("keywords", kv) @@ Entry("main_topics", tv)
            @@ Entry("relevance_score", sv) @@ Entry("research_area", av) :
            kv \in KeywordValues, tv \in TopicValues, sv \in ScoreValues, av \in AreaValues}

InitNorm ==
    /\ IdlePipeline
    /\ IdleDq
    /\ IdleEm
    /\ IdleRd
    /\ IdleMore
    /\ nm_in \in NmObjects
    /\ nm_out = EmptyDict
    /\ nm_pc = "replied"

\* analyze_paper, the service replying the object nm_in (lines 125-132)
NmAnalyze ==
    /\ nm_pc = "replied"
    /\ nm_out' = AnalyzeTry([kind |-> "object", obj |-> nm_in]).ret
    /\ nm_pc' = "done"
    /\ UNCHANGED <<nm_in, callerVars, diskVars, runVars, dlVars, anVars, dqVars, emVars,
                   rdVars, moreVars>>

NextNorm == NmAnalyze

SpecNorm == InitNorm /\ [][NextNorm]_vars

(* ------------------------------------------------------------------ *)
(* Specification of the truncation of the paper text                   *)
(* ------------------------------------------------------------------ *)

\* the text given to _truncate is the characters 1..tr_len, each taken to be
\* different from the others; a result is a sequence of pieces, a piece
\* being the characters from..to of the text (none when from > to) or the
\* marker
TextPiece(from, to) == [kind |-> "text", from |-> from, to |-> to]
Marker == [kind |-> "marker", from |-> 1, to |-> MarkerLen]

PieceLen(piece) == IF piece.to < piece.from THEN 0 ELSE piece.to - piece.from + 1

RECURSIVE PiecesLen(_)
PiecesLen(pieces) ==
    IF pieces = <<>> THEN 0 ELSE PieceLen(Head(pieces)) + PiecesLen(Tail(pieces))

Min(a, b) == IF a <= b THEN a ELSE b
Max(a, b) == IF a >= b THEN a ELSE b

\* text[:k] of a text of n characters
FirstChars(n, k) == TextPiece(1, Min(k, n))

\* text[-k:] of a text of n characters (text[-0:] is the whole text)
LastChars(n, k) == IF k = 0 THEN TextPiece(1, n) ELSE TextPiece(Max(n - k, 0) + 1, n)

\* faulty variant: the budget itself is already too long
TruncKeepsBelow(n) == n < MAX_TEXT_LENGTH

\* if len(text) <= MAX_TEXT_LENGTH (line 59)
TruncKeeps(n) == n <= MAX_TEXT_LENGTH

\* faulty variant: half of the budget for the head
TruncHeadHalf == MAX_TEXT_LENGTH \div 2

\* head = int(MAX_TEXT_LENGTH * 0.8) (line 61)
TruncHead == (MAX_TEXT_LENGTH * 8) \div 10

\* tail = MAX_TEXT_LENGTH - head (line 62)
TruncTail == MAX_TEXT_LENGTH - TruncHead

\* _truncate(text) for a text of n characters (lines 56-67)
Truncate(n) ==
    IF TruncKeeps(n) THEN <<TextPiece(1, n)>>
    ELSE <<FirstChars(n, TruncHead), Marker, LastChars(n, TruncTail)>>

TruncLengths ==
    {0} \cup {n \in (MAX_TEXT_LENGTH - TruncSpan)..(MAX_TEXT_LENGTH + TruncSpan) : n >= 0}

InitTrunc ==
    /\ IdlePipeline
    /\ IdleDq /\ IdleEm /\ IdleRd /\ IdleNm
    /\ IdleSc /\ IdleCl /\ IdleRc /\ IdleW
    /\ tr_len \in TruncLengths
    /\ tr_out = <<>>
    /\ tr_pc = "given"

\* analyze_paper line 119: the text embedded in the prompt
TrTruncate ==
    /\ tr_pc = "given"
    /\ tr_out' = Truncate(tr_len)
    /\ tr_pc' = "done"
    /\ UNCHANGED <<tr_len, scVars, clVars, rcVars, wVars>>
    /\ UNCHANGED <<callerVars, diskVars, runVars, dlVars, anVars, dqVars, emVars, rdVars,
                   nmVars>>

NextTrunc == TrTruncate

SpecTrunc == InitTrunc /\ [][NextTrunc]_vars

(* ------------------------------------------------------------------ *)
(* Specification of the scanned-document guard                         *)
(* ------------------------------------------------------------------ *)

\* the text of a page, by the numbers of its characters: lead blanks, then
\* a body that begins and ends with a non-blank and holds nonws non-blanks
\* and inner blanks, then trail blanks; a page without text has nonws = 0
PageText(lead, nonws, inner, trail) ==
    [lead |-> lead, nonws |-> nonws, inner |-> inner, trail |-> trail]

PageTexts ==
    { PageText(0, 0, 0, 0),      \* nothing on the page
      PageText(1, 0, 0, 0),      \* a newline
      PageText(0, 8, 0, 1),      \* a page number and a running head
      PageText(0, 49, 0, 0),
      PageText(0, 60, 45, 1),    \* sixty letters, spread over lines
      PageText(0, 100, 0, 1) }

ScDocs == SeqsUpTo(PageTexts, MaxPages)

PageLen(t) == t.lead + t.nonws + t.inner + t.trail

\* lines 304-308: the texts of the pages that hold something
RECURSIVE KeptPages(_)
KeptPages(doc) ==
    IF doc = <<>> THEN <<>>
    ELSE (IF Head(doc).nonws > 0 THEN <<Head(doc)>> ELSE <<>>) \o KeptPages(Tail(doc))

RECURSIVE SumLen(_)
SumLen(texts) == IF texts = <<>> THEN 0 ELSE PageLen(Head(texts)) + SumLen(Tail(texts))

\* len(raw.strip()) for raw = "\n\n".join(page_texts) (lines 312, 315)
StrippedLen(page_texts) ==
    IF page_texts = <<>> THEN 0
    ELSE SumLen(page_texts) + 2 * (Len(page_texts) - 1)
         - page_texts[1].lead - page_texts[Len(page_texts)].trail

\* the test of line 315
ScannedGuard(page_texts, num_pages) ==
    StrippedLen(page_texts) < MinTextChars /\ num_pages > 0

InitScan ==
    /\ IdlePipeline
    /\ IdleDq /\ IdleEm /\ IdleRd /\ IdleNm
    /\ IdleTr /\ IdleCl /\ IdleRc /\ IdleW
    /\ sc_doc \in ScDocs
    /\ sc_out = "none"
    /\ sc_pc = "opened"

\* extract_text_from_pdf from line 300 on, the document being open
ScExtract ==
    /\ sc_pc = "opened"
    /\ sc_out' = IF ScannedGuard(KeptPages(sc_doc), Len(sc_doc))
                 THEN "LikelyScanned" ELSE "ExtractedPaper"
    /\ sc_pc' = "done"
    /\ UNCHANGED <<sc_doc, trVars, clVars, rcVars, wVars>>
    /\ UNCHANGED <<callerVars, diskVars, runVars, dlVars, anVars, dqVars, emVars, rdVars,
                   nmVars>>

NextScan == ScExtract

SpecScan == InitScan /\ [][NextScan]_vars

(* ------------------------------------------------------------------ *)
(* batch_process.py: watch                                             *)
(* ------------------------------------------------------------------ *)

\* a PDF under the watched folder is named by its path relative to the
\* folder, a sequence of components: <<"a">> is a.pdf, <<"sub", "c">> is
\* sub/c.pdf, <<"processed", "d">> is processed/d.pdf
WatchedAtStart == { <<"a">>, <<"b">>, <<"sub", "c">>, <<"processed", "d">> }

\* a PDF that is dropped into the folder while watch sleeps
Arrival == <<"e">>

\* the file a path leads to: its last component
FileOf(path) == path[Len(path)]

\* the order of sorted() on the components
Rank2(c) ==
    CASE c = "a" -> 1 [] c = "b" -> 2 [] c = "c" -> 3 [] c = "d" -> 4 [] c = "e" -> 5
      [] c = "processed" -> 6 [] OTHER -> 7

RECURSIVE PathLess(_, _)
PathLess(p, q) ==
    IF p = <<>> THEN q # <<>>
    ELSE IF q = <<>> THEN FALSE
    ELSE IF Head(p) = Head(q) THEN PathLess(Tail(p), Tail(q))
    ELSE Rank2(Head(p)) < Rank2(Head(q))

RECURSIVE Sorted(_)
Sorted(S) ==
    IF S = {} THEN <<>>
    ELSE LET m == CHOOSE x \in S : \A y \in S \ {x} : PathLess(x, y)
         IN  <<m>> \o Sorted(S \ {m})

\* folder.rglob("*.pdf") if recursive else folder.glob("*.pdf") (line 104)
Globbed(disk, recursive) == IF recursive THEN disk ELSE {p \in disk : Len(p) = 1}

\* line 98: the paths, relative to processed/, of what is under processed/
SeenAtStart(disk) == {Tail(p) : p \in {q \in disk : Len(q) > 1 /\ Head(q) = "processed"}}

\* dest = proc_dir / rel_path_str (line 113)
Dest(path) == <<"processed">> \o path

ProcessEv(path, ok, scan) == [e |-> "process", path |-> path, ok |-> ok, scan |-> scan]
WatchSleepEv(scan) == [e |-> "sleep", path |-> <<>>, ok |-> FALSE, scan |-> scan]

InitWatch ==
    /\ IdlePipeline
    /\ IdleDq /\ IdleEm /\ IdleRd /\ IdleNm
    /\ IdleTr /\ IdleSc /\ IdleCl /\ IdleRc
    /\ w_recursive \in BOOLEAN
    /\ w_fs \in SUBSET WatchedAtStart
    /\ w_seen = SeenAtStart(w_fs)
    /\ w_new = <<>>
    /\ w_log = <<>>
    /\ w_scans = 0
    /\ w_pc = "scan"

\* lines 104-106: one scan of the folder
WScan ==
    /\ w_pc = "scan" /\ w_scans < MaxScans
    /\ w_new' = Sorted(Globbed(w_fs, w_recursive) \ w_seen)
    /\ w_scans' = w_scans + 1
    /\ w_pc' = "loop"
    /\ UNCHANGED <<w_recursive, w_fs, w_seen, w_log>>
    /\ UNCHANGED <<trVars, scVars, clVars, rcVars>>
    /\ UNCHANGED <<callerVars, diskVars, runVars, dlVars, anVars, dqVars, emVars, rdVars,
                   nmVars>>

\* lines 108-119: one iteration of the loop over new; process_single_paper
\* returns True or False, or lets an exception out, which ends watch
WProcess ==
    /\ w_pc = "loop" /\ w_new # <<>>
    /\ w_new' = Tail(w_new)
    /\ \E verdict \in {"True", "False", "raise"} :
        LET path == Head(w_new)
        IN  /\ w_log' = Append(w_log, ProcessEv(path, verdict = "True", w_scans))
            /\ IF verdict = "True"
               THEN /\ w_fs' = (w_fs \ {path}) \cup {Dest(path)}
                    /\ w_seen' = w_seen \cup {path}
                    /\ UNCHANGED w_pc
               ELSE /\ w_pc' = IF verdict = "raise" THEN "stopped" ELSE w_pc
                    /\ UNCHANGED <<w_fs, w_seen>>
    /\ UNCHANGED <<w_recursive, w_scans>>
    /\ UNCHANGED <<trVars, scVars, clVars, rcVars>>
    /\ UNCHANGED <<callerVars, diskVars, runVars, dlVars, anVars, dqVars, emVars, rdVars,
                   nmVars>>

\* line 120: the sleep that ends a scan; a PDF may arrive meanwhile
WSleep ==
    /\ w_pc = "loop" /\ w_new = <<>>
    /\ w_log' = Append(w_log, WatchSleepEv(w_scans))
    /\ w_pc' = "scan"
    /\ \E arrives \in BOOLEAN :
        w_fs' = IF arrives /\ w_scans = 1 THEN w_fs \cup {Arrival} ELSE w_fs
    /\ UNCHANGED <<w_recursive, w_seen, w_new, w_scans>>
    /\ UNCHANGED <<trVars, scVars, clVars, rcVars>>
    /\ UNCHANGED <<callerVars, diskVars, runVars, dlVars, anVars, dqVars, emVars, rdVars,
                   nmVars>>

NextWatch ==
    \/ WScan
    \/ WProcess
    \/ WSleep

SpecWatch == InitWatch /\ [][NextWatch]_vars

(* ------------------------------------------------------------------ *)
(* pdf_extractor.py: _clean_text                                       *)
(* ------------------------------------------------------------------ *)

\* the symbols of a text: a letter, a blank, a newline and the ligature
\* U+FB01, written "<fi>"
ClAlphabet == {"a", " ", "\n", "<fi>"}

\* lines 237-238: text.replace(src, dst) for the five ligatures
RECURSIVE ReplaceLigatures(_)
ReplaceLigatures(s) ==
    IF s = <<>> THEN <<>>
    ELSE (CASE Head(s) = "<fi>"  -> <<"f", "i">>
            [] Head(s) = "<fl>"  -> <<"f", "l">>
            [] Head(s) = "<ff>"  -> <<"f", "f">>
            [] Head(s) = "<ffi>" -> <<"f", "f", "i">>
            [] Head(s) = "<ffl>" -> <<"f", "f", "l">>
            [] OTHER             -> <<Head(s)>>) \o ReplaceLigatures(Tail(s))

\* line 239: re.sub(r"\n{3,}", "\n\n", text): every maximal run of three or
\* more newlines becomes two newlines
RECURSIVE CollapseNewlines(_)
CollapseNewlines(s) ==
    IF s = <<>> THEN <<>>
    ELSE IF Head(s) # "\n" THEN <<Head(s)>> \o CollapseNewlines(Tail(s))
    ELSE LET run == CHOOSE n \in 1..Len(s) :
                       /\ \A i \in 1..n : s[i] = "\n"
                       /\ (n = Len(s) \/ s[n + 1] # "\n")
             rest == SubSeq(s, run + 1, Len(s))
         IN  (IF run >= 3 THEN <<"\n", "\n">> ELSE SubSeq(s, 1, run))
             \o CollapseNewlines(rest)

\* line 240: "\n".join(line.rstrip() for line in text.split("\n"))
RECURSIVE RStripLines(_)
RStripLines(s) ==
    IF \A i \in 1..Len(s) : s[i] # "\n" THEN RStrip(s)
    ELSE LET nl == CHOOSE n \in 1..Len(s) :
                      s[n] = "\n" /\ \A i \in 1..(n - 1) : s[i] # "\n"
         IN  RStrip(SubSeq(s, 1, nl - 1)) \o <<"\n">>
             \o RStripLines(SubSeq(s, nl + 1, Len(s)))

\* lines 235-241
CleanText(text) == Strip(RStripLines(CollapseNewlines(ReplaceLigatures(text))))

InitClean ==
    /\ IdlePipeline
    /\ IdleDq /\ IdleEm /\ IdleRd /\ IdleNm
    /\ IdleTr /\ IdleSc /\ IdleRc /\ IdleW
    /\ cl_in \in UNION {[1..n -> ClAlphabet] : n \in 0..MaxTextLen}
    /\ cl_out = <<>>
    /\ cl_again = <<>>
    /\ cl_pc = "given"

\* _clean_text(text)
ClClean ==
    /\ cl_pc = "given"
    /\ cl_out' = CleanText(cl_in)
    /\ cl_pc' = "once"
    /\ UNCHANGED <<cl_in, cl_again>>
    /\ UNCHANGED <<trVars, scVars, rcVars, wVars>>
    /\ UNCHANGED <<callerVars, diskVars, runVars, dlVars, anVars, dqVars, emVars, rdVars,
                   nmVars>>

\* _clean_text of what _clean_text returned
ClAgain ==
    /\ cl_pc = "once"
    /\ cl_again' = CleanText(cl_out)
    /\ cl_pc' = "twice"
    /\ UNCHANGED <<cl_in, cl_out>>
    /\ UNCHANGED <<trVars, scVars, rcVars, wVars>>
    /\ UNCHANGED <<callerVars, diskVars, runVars, dlVars, anVars, dqVars, emVars, rdVars,
                   nmVars>>

NextClean ==
    \/ ClClean
    \/ ClAgain

SpecClean == InitClean /\ [][NextClean]_vars

(* ------------------------------------------------------------------ *)
(* The record that is written: fallbacks and create_paper_page         *)
(* ------------------------------------------------------------------ *)

\* what analyze_paper can return for title and authors: the reply object
\* after _normalise
RcAnalyses ==
    { Normalise(Entry("title", t) @@ Entry("authors", a)) :
        t \in {Absent, JNull, JStr(<<>>), JStr(<<"T">>), JStr(<<" ">>)},
        a \in {Absent, JNull, JStr(<<>>), JStr(<<"W">>)} }

InitRecord ==
    /\ IdlePipeline
    /\ IdleDq /\ IdleEm /\ IdleRd /\ IdleNm
    /\ IdleTr /\ IdleSc /\ IdleCl /\ IdleW
    /\ rc_paper \in [title : {<<>>, <<"P">>}, authors : {<<>>, <<"A">>}]
    /\ rc_analysis \in RcAnalyses
    /\ rc_link \in {NoPath, LocalPath(1), UrlPath(1)}
    /\ rc_record = EmptyDict
    /\ rc_pc = "given"

\* paper_processor.py lines 140-143 and the properties that
\* create_paper_page builds from the result (notion_client.py lines 141-159)
RcWrite ==
    /\ rc_pc = "given"
    /\ rc_record' = CatalogRecord(Fallback(rc_analysis, rc_paper), rc_link)
    /\ rc_pc' = "built"
    /\ UNCHANGED <<rc_paper, rc_analysis, rc_link>>
    /\ UNCHANGED <<trVars, scVars, clVars, wVars>>
    /\ UNCHANGED <<callerVars, diskVars, runVars, dlVars, anVars, dqVars, emVars, rdVars,
                   nmVars>>

NextRecord == RcWrite

SpecRecord == InitRecord /\ [][NextRecord]_vars

(* ------------------------------------------------------------------ *)
(* batch_process.py: batch, over the folder of the watch specification  *)
(* ------------------------------------------------------------------ *)

\* batch is about to list the folder (lines 36-41); w_new holds pdfs
InitBatch ==
    /\ IdlePipeline
    /\ IdleDq /\ IdleEm /\ IdleRd /\ IdleNm
    /\ IdleTr /\ IdleSc /\ IdleCl /\ IdleRc
    /\ w_recursive \in BOOLEAN
    /\ w_fs \in SUBSET WatchedAtStart
    /\ w_seen = {}
    /\ w_new = <<>>
    /\ w_log = <<>>
    /\ w_scans = 0
    /\ w_pc = "list"

\* lines 42-51: pdfs = sorted(rglob or glob); an empty list returns at once
BList ==
    /\ w_pc = "list"
    /\ w_new' = Sorted(Globbed(w_fs, w_recursive))
    /\ w_pc' = IF w_new' = <<>> THEN "done" ELSE "loop"
    /\ UNCHANGED <<w_recursive, w_fs, w_seen, w_log, w_scans>>
    /\ UNCHANGED <<trVars, scVars, clVars, rcVars>>
    /\ UNCHANGED <<callerVars, diskVars, runVars, dlVars, anVars, dqVars, emVars, rdVars,
                   nmVars>>

\* lines 53-74: one iteration of the loop over pdfs, and the return after
\* the last one; an exception of process_single_paper ends batch
BProcess ==
    /\ w_pc = "loop" /\ w_new # <<>>
    /\ w_new' = Tail(w_new)
    /\ \E verdict \in {"True", "False", "raise"} :
        LET pdf == Head(w_new)
            dest == IF w_recursive THEN Dest(pdf) ELSE Dest(<<FileOf(pdf)>>)
            ev == ProcessEv(pdf, verdict = "True", 1)
        IN  /\ w_fs' = IF verdict = "True" THEN (w_fs \ {pdf}) \cup {dest} ELSE w_fs
            /\ IF verdict = "raise"
               THEN w_log' = Append(w_log, ev) /\ w_pc' = "stopped"
               ELSE IF LoopGoesOn(0, Len(w_new'))
                    THEN w_log' = w_log \o <<ev, WatchSleepEv(1)>> /\ w_pc' = "loop"
                    ELSE w_log' = Append(w_log, ev) /\ w_pc' = "done"
    /\ UNCHANGED <<w_recursive, w_seen, w_scans>>
    /\ UNCHANGED <<trVars, scVars, clVars, rcVars>>
    /\ UNCHANGED <<callerVars, diskVars, runVars, dlVars, anVars, dqVars, emVars, rdVars,
                   nmVars>>

NextBatch ==
    \/ BList
    \/ BProcess

SpecBatch == InitBatch /\ [][NextBatch]_vars

(* ------------------------------------------------------------------ *)
(* Properties                                                          *)
(* ------------------------------------------------------------------ *)

AfterDownload == {"extract", "dup", "analyze", "post", "create"}

\* C1: for a URL input, once download_pdf has returned a temp-file path,
\* that file no longer exists when process_single_paper hands control back,
\* whether it returned True, returned False or let an exception out.
C1_DownloadedFileDeleted ==
    (pc = "returned" /\ is_url /\ pdf_path # NoPath) => pdf_path \notin fs

\* a URL run whose download succeeded and which an exception left
C1_Witness ==
    /\ pc = "returned" /\ is_url /\ pdf_path \in dl_created
    /\ result = "raise" /\ pdf_path \notin fs

\* C2: in a DOI run, a temp file that the resolver's third strategy wrote
\* is deleted before the run returns control.
C2_DoiTempFileDeleted ==
    (mode = "doi" /\ cpc \in {"exit", "aborted"} /\ doi_tmp # NoPath) => doi_tmp \notin fs

\* C3: once download_pdf has returned or raised, the only temp file of its
\* attempts left on disk is the one whose path it returned, and none is
\* left when it raised DownloadFailed.
C3_NoTempFileOfFailedAttempt ==
    /\ (is_url /\ pc \in AfterDownload) => (dl_created \cap fs) \subseteq {pdf_path}
    /\ (is_url /\ pc = "returned" /\ failure.err = "DownloadFailed")
          => (dl_created \cap fs) = {}

\* C4: process_folder and batch call process_single_paper on all N papers
\* of the folder and end with success + failed = N, whatever happens to
\* any single paper.
C4_EveryPaperProcessed ==
    (mode \in {"folder", "batch"} /\ cpc \in {"exit", "aborted"})
        => /\ cpc = "exit"
           /\ invoked = npapers
           /\ counts.success + counts.failed = npapers

Rank(stage) == CHOOSE i \in 1..Len(Stages) : Stages[i] = stage

Called(stage) == \E i \in 1..Len(calls) : calls[i] = stage

\* the stage calls are in pipeline order, none twice
CallsInOrder ==
    \A i, j \in 1..Len(calls) : i < j => Rank(calls[i]) < Rank(calls[j])

\* a stage is entered only when every stage called before it returned
\* without raising, so a stage that failed is the last one called
CallsAfterCompletion ==
    \A i \in 1..Len(calls) : i < Len(calls) => calls[i] \in completed

\* download is the first call of a URL run and no call of any other run
DownloadIffUrl ==
    /\ Called("download") => is_url
    /\ (is_url /\ calls # <<>>) => calls[1] = "download"

\* C5 as amended: the stage calls occur in the order download (URL input
\* only), extract, duplicate query (only when the extracted paper has a
\* title), analysis, catalog create; each is made at most once and only
\* after the stage before it returned without error; after a failed stage
\* no further stage is called.
C5_StageOrder ==
    /\ CallsInOrder
    /\ CallsAfterCompletion
    /\ DownloadIffUrl
    /\ Called("dup") => Called("extract") /\ paper.title # <<>>
    /\ Called("analyze") => Called("extract") /\ (paper.title # <<>> => Called("dup"))
    /\ Called("create") => Called("analyze")

\* a URL run of a paper without a title that went through to the write
C5_Witness ==
    /\ pc = "returned" /\ result = "True" /\ paper.title = <<>>
    /\ calls = <<"download", "extract", "analyze", "create">>

\* C5 as stated: the same, with the duplicate query a stage of every run,
\* so that the analysis is entered only after it.
C5_StageOrderAsStated ==
    /\ CallsInOrder
    /\ CallsAfterCompletion
    /\ DownloadIffUrl
    /\ Called("dup") => Called("extract")
    /\ Called("analyze") => Called("dup")
    /\ Called("create") => Called("analyze")

\* C6: when the duplicate check returns an existing reference, the run
\* returns True and calls neither the reasoning service nor the catalog's
\* create operation.
C6_DuplicateSkips ==
    dup_url # None =>
        /\ pc = "returned" /\ result = "True"
        /\ ~Called("analyze") /\ an_log = <<>>
        /\ ~Called("create") /\ create_requests = 0

\* a run that ended on a duplicate
C6_Witness == pc = "returned" /\ dup_url = "u1" /\ Called("dup")

Taxonomy ==
    {"NotFound", "Unreadable", "PasswordProtected", "LikelyScanned", "DownloadFailed",
     "InvalidResponse", "ServiceUnavailable", "CatalogRejected", "CatalogUnreachable"}

DupCheckFailed == CheckDuplicateTry(paper.title, dup_resp).exc.cls # "none"

\* C8: check_duplicate never raises: whatever the catalog query does, it
\* returns a reference or none, and after a failed duplicate check the
\* run goes on to the analysis.
C8_DuplicateCheckNeverBlocks ==
    Called("dup") =>
        /\ "dup" \in completed
        /\ dup_url \in {None, "u1", "u2"}
        /\ DupCheckFailed =>
              /\ dup_url = None
              /\ pc = "analyze" \/ Called("analyze")

\* a run whose duplicate query met a page it could not read
C8_Witness ==
    /\ Called("dup") /\ dup_resp.kind = "ok" /\ DupCheckFailed
    /\ Called("analyze")

\* the lower-cased words of a title, in order
RECURSIVE WordsOf(_, _)
WordsOf(s, cur) ==
    LET done == IF cur = <<>> THEN <<>> ELSE <<cur>>
    IN  IF s = <<>> THEN done
        ELSE IF IsSpace(Head(s)) THEN done \o WordsOf(Tail(s), <<>>)
             ELSE WordsOf(Tail(s), Append(cur, LowerChar(Head(s))))

\* equal after normalization: the same words, whatever the case and blanks
SameTitle(a, b) == WordsOf(a, <<>>) = WordsOf(b, <<>>)

\* the title a page stores: the text of all its rich-text blocks ("@" for a
\* block that is no text)
RECURSIVE StoredTitle(_)
StoredTitle(blocks) ==
    IF blocks = <<>> THEN <<>>
    ELSE (IF Head(blocks).has_text THEN Head(blocks).content ELSE <<"@">>)
         \o StoredTitle(Tail(blocks))

\* the reference of the first candidate whose stored title equals the query
FirstMatchRef(q, results) ==
    LET m == {i \in 1..Len(results) : SameTitle(StoredTitle(results[i].blocks), q)}
    IN  IF m = {} THEN None
        ELSE results[CHOOSE i \in m : \A j \in m : i <= j].url

\* C9: check_duplicate returns the reference of the first candidate, in the
\* service's order, whose stored title equals the query title after
\* normalization, and none when no candidate's title is equal; a candidate
\* whose title merely contains the query title is never returned.
C9_FirstExactMatch ==
    (dq_pc = "done" /\ dq_title # <<>> /\ dq_resp.kind = "ok")
        => dq_out = [exc |-> NoExc, ret |-> FirstMatchRef(dq_title, dq_resp.results)]

CallsIn(log) == Cardinality({i \in 1..Len(log) : log[i].e = "call"})

\* C10: when every reasoning-service call fails with a transport or service
\* error, analyze_paper makes exactly 3 calls, sleeps the base delay after
\* the first, twice the base delay after the second and not after the
\* last, and fails with ServiceUnavailable; when a call succeeds with a
\* valid reply, the result is returned and no further call is made.
C10_AnalysisRetry ==
    LET n == Len(an_replies)
    IN  /\ n <= 3
        /\ CallsIn(an_log) = n
        /\ (pc # "analyze" /\ n > 0 /\ \A i \in 1..n : an_replies[i] = "transport")
              => /\ an_log = <<CallEv, SleepEv(REQUEST_RETRY_DELAY), CallEv,
                               SleepEv(2 * REQUEST_RETRY_DELAY), CallEv>>
                 /\ failure = Exc("RuntimeError", "ServiceUnavailable")
                 /\ result = "False"
        /\ \A k \in 1..n : an_replies[k] = "object"
              => /\ k = n
                 /\ "analyze" \in completed
                 /\ pc # "analyze"
                 /\ DOMAIN analysis # {}

\* a run in which all three calls of the service failed
C10_Witness ==
    /\ an_replies = <<"transport", "transport", "transport">>
    /\ pc = "returned" /\ failure.err = "ServiceUnavailable"

\* C11: a reply that is empty, or that is no JSON, or that is JSON but not
\* an object makes analyze_paper fail with InvalidResponse on the attempt
\* that received it: no sleep and no further call follow it, so that such a
\* reply to the first call leaves exactly one call and no wait.
C11_InvalidReplyFailsFast ==
    \A i \in 1..Len(an_replies) :
        an_replies[i] \in {"empty", "invalid", "non_object"}
            => /\ i = Len(an_replies)
               /\ pc = "returned"
               /\ failure = Exc("RuntimeError", "InvalidResponse")
               /\ an_log[Len(an_log)] = CallEv
               /\ i = 1 => an_log = <<CallEv>>

SleepsIn(log) == Cardinality({i \in 1..Len(log) : log[i].e = "sleep"})

\* download_pdf was called and did not return a path
DownloadOver == Called("download") /\ pc # "download" /\ "download" \notin completed

\* C12: when every fetch of a URL fails with a network or HTTP error,
\* download_pdf makes exactly 3 attempts with the same fixed delay after the
\* first and after the second and none after the third, then fails with
\* DownloadFailed; process_single_paper returns False and the extractor is
\* never called.
C12_DownloadRetry ==
    /\ CallsIn(dl_log) <= REQUEST_RETRY_COUNT
    /\ \A i \in 1..Len(dl_log) : dl_log[i].e = "sleep" => dl_log[i].d = REQUEST_RETRY_DELAY
    /\ DownloadOver
          => /\ dl_log = <<CallEv, SleepEv(REQUEST_RETRY_DELAY), CallEv,
                           SleepEv(REQUEST_RETRY_DELAY), CallEv>>
             /\ CallsIn(dl_log) = 3 /\ SleepsIn(dl_log) = 2
             /\ pc = "returned"
             /\ failure = Exc("RuntimeError", "DownloadFailed")
             /\ result = "False"
             /\ ~Called("extract")

\* a URL run whose three fetches all answered 404
C12_Witness ==
    /\ DownloadOver /\ input_path = UrlPath(1) /\ last_error = "status_404"
    /\ CallsIn(dl_log) = 3 /\ result = "False"

Blocked403 == {"blocked", "blocked_sciencedirect"}

\* C13: the message of DownloadFailed is classified by the status of the
\* last failed attempt alone, whatever the URL: a 404 gives the text that
\* tells to check the URL, a 403 gives the paywall / bot-block text with the
\* DOI or manual fallback, any other failure gives neither.
C13_MessageByStatus ==
    em_pc = "raised" =>
        /\ em_last = "status_404"
              => "check_url" \in em_msg /\ em_msg \cap Blocked403 = {}
        /\ em_last = "status_403"
              => em_msg \cap Blocked403 # {} /\ "check_url" \notin em_msg
        /\ em_last \notin {"status_403", "status_404"}
              => em_msg = {"failed_after_attempts"}

Cascade == <<"open_access", "pattern", "redirect">>

\* what a strategy yields on the answer it was given: its result, or no URL
\* when it found nothing or its request failed
Yield1 == IF OpenAccessTry(rd_oa).exc.cls = "none" THEN OpenAccessTry(rd_oa).ret ELSE NoUrl
Yield2 == PatternUrl(rd_clean)
Yield3 ==
    LET r == RedirectTry(rd_redirect, TmpPath(next_tmp - 1))
    IN  IF r.exc.cls = "none" THEN r.ret ELSE NoUrl

DoiUnresolved == [exc |-> Exc("RuntimeError", "DoiUnresolved"), ret |-> NoUrl]

\* C14: resolve_doi_to_pdf enters the open-access lookup, the pattern
\* construction and the redirect scan in that order, returns the result of
\* the first strategy that yields one without entering a later strategy,
\* takes a failed lookup or redirect request for no result, and raises
\* DoiUnresolved exactly when all three strategies yield nothing.
C14_Cascade ==
    /\ Len(rd_log) <= 3 /\ rd_log = SubSeq(Cascade, 1, Len(rd_log))
    /\ rd_pc = "done" =>
          /\ rd_out.exc \in {NoExc, DoiUnresolved.exc}
          /\ Yield1 # NoUrl => rd_log = <<"open_access">> /\ rd_out = [exc |-> NoExc, ret |-> Yield1]
          /\ (Yield1 = NoUrl /\ Yield2 # NoUrl)
                => /\ rd_log = <<"open_access", "pattern">>
                   /\ rd_out = [exc |-> NoExc, ret |-> Yield2]
          /\ (Yield1 = NoUrl /\ Yield2 = NoUrl)
                => /\ rd_log = Cascade
                   /\ Yield3 # NoUrl => rd_out = [exc |-> NoExc, ret |-> Yield3]
          /\ rd_out = DoiUnresolved
                <=> (Yield1 = NoUrl /\ Yield2 = NoUrl /\ Yield3 = NoUrl)

\* a resolution whose lookup answered with a body that is no object and
\* whose redirect request failed
C14_Witness ==
    /\ rd_pc = "done" /\ rd_oa = "not_object" /\ rd_redirect.kind = "transport"
    /\ rd_log = Cascade /\ rd_out = DoiUnresolved

ClaimedForms == {"bare", "doi:", "https://doi.org/"}

ArxivExample == <<"10.48550/arXiv.", "2301.12345">>

\* C15: for every DOI identifier d, the inputs d, "doi:" + d and
\* "https://doi.org/" + d are normalized to the bare identifier d, so that
\* the three resolve alike; for 10.48550/arXiv.2301.12345 without an
\* open-access hit they give https://arxiv.org/pdf/2301.12345.pdf through
\* the pattern strategy.
C15_DoiNormalization ==
    /\ (rd_pc \notin {"idle", "start"} /\ \E f \in ClaimedForms : rd_doi = Spelt(rd_id, f))
          => rd_clean = rd_id
    /\ (rd_pc = "done" /\ rd_id = ArxivExample /\ Yield1 = NoUrl
            /\ \E f \in ClaimedForms : rd_doi = Spelt(rd_id, f))
          => /\ rd_out = [exc |-> NoExc,
                          ret |-> <<"https://arxiv.org/pdf/", "2301.12345", ".pdf">>]
             /\ rd_log = <<"open_access", "pattern">>

\* the positions of the anchors of a page whose target is absolute and
\* holds ".pdf" or a download+pdf marker
AbsoluteMatches(anchors) ==
    {i \in 1..Len(anchors) : anchors[i].abs /\ (anchors[i].dotpdf \/ anchors[i].dlpdf)}

\* C16: when strategy 3 is given a landing page that is no PDF, it returns
\* the first anchor target, in page order, that is absolute and holds
\* ".pdf" or a download+pdf marker, also when matching relative targets come
\* before it, and DoiUnresolved is raised only when the page has no such
\* anchor.
C16_FirstAbsoluteMatch ==
    (rd_pc = "done" /\ rd_log = Cascade /\ rd_redirect.kind = "page") =>
        LET m == AbsoluteMatches(rd_redirect.anchors)
        IN  IF m = {}
            THEN rd_out = DoiUnresolved
            ELSE rd_out = [exc |-> NoExc,
                           ret |-> <<rd_redirect.anchors[CHOOSE i \in m : \A j \in m : i <= j].href>>]

CreateCalls == Cardinality({i \in 1..Len(calls) : calls[i] = "create"})

\* C17: the catalog write is never retried: a run calls create_paper_page
\* at most once and the call sends exactly one create request; a write
\* answered with a non-success status fails at once with CatalogRejected, a
\* transport failure fails at once with CatalogUnreachable, and in both
\* cases the run returns False with that one request sent.
C17_NoWriteRetry ==
    /\ CreateCalls <= 1 /\ create_requests = CreateCalls
    /\ create_answer \in {"rejected", "bad_body"}
          => /\ pc = "returned" /\ create_requests = 1
             /\ failure = Exc("RuntimeError", "CatalogRejected")
             /\ result = "False"
    /\ create_answer = "transport"
          => /\ pc = "returned" /\ create_requests = 1
             /\ failure = Exc("RuntimeError", "CatalogUnreachable")
             /\ result = "False"

\* C18: for every reply object, whatever subset of the expected keys it
\* holds, the result of analyze_paper holds all ten keys; a missing
\* relevance_score is Medium, a missing research_area is Background and a
\* missing language is English.
C18_AllKeysPresent ==
    nm_pc = "done" =>
        /\ ExpectedKeys \subseteq DOMAIN nm_out
        /\ "relevance_score" \notin DOMAIN nm_in
              => nm_out["relevance_score"] = JStr(<<"Medium">>)
        /\ "research_area" \notin DOMAIN nm_in
              => nm_out["research_area"] = JStr(<<"Background">>)
        /\ "language" \notin DOMAIN nm_in
              => nm_out["language"] = JStr(<<"English">>)

\* a reply that held the title alone
C18_Witness ==
    /\ nm_pc = "done" /\ DOMAIN nm_in = {"title"}
    /\ nm_out["relevance_score"] = JStr(<<"Medium">>)
    /\ nm_out["language"] = JStr(<<"English">>)

Scores == {JStr(<<"High">>), JStr(<<"Medium">>), JStr(<<"Low">>)}

Areas ==
    {JStr(<<"Primary Research">>), JStr(<<"Related Field">>), JStr(<<"Methodology">>),
     JStr(<<"Background">>)}

\* C19: in every result of analyze_paper relevance_score is High, Medium or
\* Low, research_area is one of the four areas, and keywords and
\* main_topics are sequences of strings, also when the reply holds a key
\* with a null or out-of-domain value.
C19_ValuesInDomain ==
    nm_pc = "done" =>
        /\ nm_out["relevance_score"] \in Scores
        /\ nm_out["research_area"] \in Areas
        /\ nm_out["keywords"].t = "list"
        /\ nm_out["main_topics"].t = "list"

\* positions of the commas of a string, with the two ends as sentinels
Cuts(str) == {0, Len(str) + 1} \cup {i \in 1..Len(str) : str[i] = ","}

\* the text between the cut at lo and the next cut, without the blanks
\* around it
TokenAfter(str, lo) ==
    LET hi == CHOOSE h \in Cuts(str) : h > lo /\ \A c \in Cuts(str) : c > lo => h <= c
        inner == {i \in (lo + 1)..(hi - 1) : ~IsSpace(str[i])}
    IN  IF inner = {} THEN <<>>
        ELSE SubSeq(str, CHOOSE i \in inner : \A j \in inner : i <= j,
                         CHOOSE i \in inner : \A j \in inner : j <= i)

\* the cuts that open a non-empty token, in increasing order
RECURSIVE SortedCuts(_)
SortedCuts(S) ==
    IF S = {} THEN <<>>
    ELSE LET m == CHOOSE x \in S : \A y \in S : x <= y
         IN  <<m>> \o SortedCuts(S \ {m})

\* the trimmed, non-empty comma-separated tokens of a string, left to right
TokensOf(str) ==
    LET opens == SortedCuts({c \in Cuts(str) \ {Len(str) + 1} : TokenAfter(str, c) # <<>>})
    IN  [n \in 1..Len(opens) |-> TokenAfter(str, opens[n])]

ListFieldCoerced(k) ==
    k \in DOMAIN nm_in =>
        /\ nm_in[k].t = "str" => nm_out[k] = JList(TokensOf(nm_in[k].v[1]))
        /\ nm_in[k].t = "list" => nm_out[k] = nm_in[k]

\* C20: a keywords or main_topics value given as one comma-joined string
\* becomes the sequence of its comma-separated tokens, trimmed, without the
\* empty ones, in the original order ("a, b, c" gives a, b, c); a value
\* that is a sequence already is left unchanged.
C20_CommaStringsSplit ==
    nm_pc = "done" =>
        /\ ListFieldCoerced("keywords")
        /\ ListFieldCoerced("main_topics")
        /\ ("keywords" \in DOMAIN nm_in
              /\ nm_in["keywords"] = JStr(<<"a", ",", " ", "b", ",", " ", "c">>))
              => nm_out["keywords"] = JList(<< <<"a">>, <<"b">>, <<"c">> >>)

\* the reply that gave keywords as "a, b, c"
C20_Witness ==
    /\ nm_pc = "done" /\ "keywords" \in DOMAIN nm_in
    /\ nm_in["keywords"] = JStr(<<"a", ",", " ", "b", ",", " ", "c">>)
    /\ nm_out["keywords"] = JList(<< <<"a">>, <<"b">>, <<"c">> >>)

\* C21: for every text longer than the budget B the result of _truncate is
\* B plus the marker long; it begins with the first 80 % of B characters of
\* the text, ends with its last 20 % of B characters and has the marker
\* between the two.
C21_TruncatedShape ==
    (tr_pc = "done" /\ tr_len > MAX_TEXT_LENGTH) =>
        /\ Len(tr_out) = 3
        /\ PiecesLen(tr_out) = MAX_TEXT_LENGTH + MarkerLen
        /\ tr_out[1].kind = "text" /\ tr_out[1].from = 1
        /\ 10 * PieceLen(tr_out[1]) = 8 * MAX_TEXT_LENGTH
        /\ tr_out[2] = Marker
        /\ tr_out[3].kind = "text" /\ tr_out[3].to = tr_len
        /\ 10 * PieceLen(tr_out[3]) = 2 * MAX_TEXT_LENGTH
        /\ PieceLen(tr_out[1]) + PieceLen(tr_out[3]) = MAX_TEXT_LENGTH

\* a text one character over the budget
C21_Witness ==
    /\ tr_pc = "done" /\ tr_len = MAX_TEXT_LENGTH + 1
    /\ tr_out = <<TextPiece(1, 24000), Marker, TextPiece(24002, 30001)>>

\* C22: a text no longer than the budget, the budget's own length included,
\* is returned by _truncate as it is, without a marker.
C22_ShortTextUnchanged ==
    (tr_pc = "done" /\ tr_len <= MAX_TEXT_LENGTH) => tr_out = <<TextPiece(1, tr_len)>>

\* a text exactly as long as the budget
C22_Witness ==
    tr_pc = "done" /\ tr_len = MAX_TEXT_LENGTH /\ tr_out = <<TextPiece(1, MAX_TEXT_LENGTH)>>

\* the non-blank characters extracted from a document
RECURSIVE NonBlanks(_)
NonBlanks(doc) == IF doc = <<>> THEN 0 ELSE Head(doc).nonws + NonBlanks(Tail(doc))

\* C23: extract_text_from_pdf fails with LikelyScanned exactly when the
\* page count is positive and fewer than 100 non-whitespace characters were
\* extracted; otherwise it builds the ExtractedPaper, and it builds none for
\* a document it rejects.
C23_ScannedExactly ==
    sc_pc = "done" =>
        /\ sc_out \in {"LikelyScanned", "ExtractedPaper"}
        /\ sc_out = "LikelyScanned" <=> (Len(sc_doc) > 0 /\ NonBlanks(sc_doc) < MinTextChars)

\* C24: process_single_paper never deletes a local file the caller gave it:
\* the file is there after the run however the run ended, and a path that
\* names no file gives the verdict False without any call of the extractor,
\* the catalog or the reasoning service.
C24_LocalInputKept ==
    (cpc = "running" /\ ~is_url) =>
        IF failure = Exc("none", "NotFound")
        THEN /\ input_path \notin fs
             /\ pc = "returned" /\ result = "False"
             /\ calls = <<>> /\ an_log = <<>> /\ create_requests = 0
        ELSE input_path \in fs

\* a run on a local file that an exception left
C24_Witness ==
    /\ cpc = "running" /\ pc = "returned" /\ ~is_url /\ result = "raise"
    /\ input_path = LocalPath(1) /\ input_path \in fs

\* the temp files this program has created so far
TempPaths == {TmpPath(n) : n \in 1..(next_tmp - 1)}

\* C25: the path of a temp file is never handed on: process_single_paper
\* returns a verdict, not a path, no record of the catalog holds a temp
\* path as its PDF reference, and the record written for a URL input refers
\* to the input URL.
C25_TempPathNotReferenced ==
    /\ result \in {"none", "True", "False", "raise"}
    /\ \A i \in 1..Len(pages) : pages[i].pdf_link \notin TempPaths
    /\ (is_url /\ "create" \in completed)
          => pages[Len(pages)].pdf_link = input_path /\ input_path[1] = "url"

\* a URL run that wrote its record after reading the downloaded temp file
C25_Witness ==
    /\ pc = "returned" /\ is_url /\ "create" \in completed
    /\ pdf_path \in TempPaths /\ pages[Len(pages)].pdf_link = UrlPath(1)

\* C26: between two consecutive papers of one process_folder, batch or
\* watch run a delay elapses before the second paper's processing starts:
\* in the order of events a sleep stands between any two calls of
\* process_single_paper; none is needed after the last paper.
C26_DelayBetweenPapers ==
    \A i \in 1..(Len(w_log) - 1) :
        w_log[i].e = "process" => w_log[i + 1].e = "sleep"

\* C30: in watch mode, recursive or not, a PDF whose processing succeeded is
\* moved into processed/ and is never handed to process_single_paper again
\* in a later scan; a PDF whose processing failed stays where it is and is
\* processed again in every later scan until it succeeds.
C30_WatchOncePerSuccess ==
    /\ \A i \in 1..Len(w_log) : \A j \in (i + 1)..Len(w_log) :
          (w_log[i].e = "process" /\ w_log[i].ok /\ w_log[j].e = "process")
             => FileOf(w_log[j].path) # FileOf(w_log[i].path)
    /\ (w_log # <<>> /\ w_log[Len(w_log)].e = "process" /\ w_log[Len(w_log)].ok)
          => /\ Dest(w_log[Len(w_log)].path) \in w_fs
             /\ w_log[Len(w_log)].path \notin w_fs
    /\ \A i \in 1..Len(w_log) :
          (/\ w_log[i].e = "process" /\ ~w_log[i].ok
           /\ \A j \in (i + 1)..Len(w_log) : w_log[j].path # w_log[i].path)
             => w_log[i].path \in w_fs
    /\ \A i \in 1..Len(w_log) :
          (/\ w_log[i].e = "process" /\ ~w_log[i].ok
           /\ \E s \in 1..Len(w_log) :
                 w_log[s].e = "sleep" /\ w_log[s].scan = w_log[i].scan + 1)
             => \E j \in (i + 1)..Len(w_log) :
                   /\ w_log[j].e = "process" /\ w_log[j].path = w_log[i].path
                   /\ w_log[j].scan = w_log[i].scan + 1

\* the text has three newlines in a row
HasNewlineRun(s) ==
    \E i \in 1..(Len(s) - 2) : s[i] = "\n" /\ s[i + 1] = "\n" /\ s[i + 2] = "\n"

\* a line of the text, or the text itself, ends in whitespace
HasTrailingSpace(s) ==
    \/ s # <<>> /\ s[Len(s)] \in {" ", "\t"}
    \/ \E i \in 2..Len(s) : s[i] = "\n" /\ s[i - 1] \in {" ", "\t"}

\* C27: for every input text the output of _clean_text holds no run of three
\* or more newlines and no line that ends in whitespace, and cleaning the
\* output again changes nothing.
C27_CleanIsNormalForm ==
    /\ (cl_pc \in {"once", "twice"})
          => ~HasNewlineRun(cl_out) /\ ~HasTrailingSpace(cl_out)
    /\ (cl_pc = "twice") => cl_again = cl_out

\* how often a stage was called in the current run
TimesCalled(stage) == Cardinality({i \in 1..Len(calls) : calls[i] = stage})

\* the budget of one run of process_single_paper
RunBudget ==
    /\ CallsIn(dl_log) <= 3 /\ SleepsIn(dl_log) <= 2
    /\ CallsIn(an_log) <= 3 /\ SleepsIn(an_log) <= 2
    /\ dl_attempt <= 3 /\ an_attempt <= 3
    /\ \A k \in 1..Len(Stages) : TimesCalled(Stages[k]) <= 1
    /\ create_requests <= 1

\* C28: every run of process_single_paper hands control back to its caller,
\* and does so within its budget of external calls: at most 3 download
\* requests, 1 extraction, 1 duplicate query, 3 reasoning-service calls and
\* 1 catalog create request, with at most 2 waits in each retry loop.
C28_BoundedRun ==
    /\ []RunBudget
    /\ (cpc = "running") ~> (pc = "returned")

\* a run that used up the download budget and the analysis budget and returned
C28_Witness ==
    /\ pc = "returned" /\ cpc = "running"
    /\ CallsIn(dl_log) = 3 /\ SleepsIn(dl_log) = 2
    /\ CallsIn(an_log) = 3 /\ SleepsIn(an_log) = 2
    /\ TimesCalled("extract") = 1 /\ TimesCalled("dup") = 1

Processed == {w_log[i].path : i \in {k \in 1..Len(w_log) : w_log[k].e = "process"}}

\* the path lies under processed/
UnderProcessed(path) == Len(path) > 1 /\ Head(path) = "processed"

\* the PDFs a batch call is about: those of the folder itself, and with
\* recursive those of its subdirectories, outside processed/
InScope(path) == ~UnderProcessed(path) /\ (w_recursive \/ Len(path) = 1)

\* C31: in one batch call, recursive or not, every PDF of the folder that is
\* not under processed/ is passed to process_single_paper exactly once, a
\* PDF under processed/ is not processed again, and a PDF is moved into
\* processed/ exactly when its processing returned success.
C31_BatchOncePerPdf ==
    /\ \A i, j \in 1..Len(w_log) :
          (w_log[i].e = "process" /\ w_log[j].e = "process" /\ i # j)
             => w_log[i].path # w_log[j].path
    /\ \A path \in Processed : ~UnderProcessed(path)
    /\ \A i \in 1..Len(w_log) :
          w_log[i].e = "process"
             => IF w_log[i].ok
                THEN w_log[i].path \notin w_fs /\ Dest(w_log[i].path) \in w_fs
                ELSE w_log[i].path \in w_fs /\ Dest(w_log[i].path) \notin w_fs
    /\ (w_pc = "done") => \A path \in w_fs : InScope(path) => path \in Processed

====
